---- MODULE Spec2Model ----
(***************************************************************************)
(* track-my-jobs-ai: the asynchronous email-processing pipeline.           *)
(*                                                                         *)
(*   lib/webllm-worker.ts  (WebLLMWorker: the request/response channel to  *)
(*                          the inference worker, and the typed adapter)   *)
(*   lib/email-processor.ts (EmailProcessingApp: the per-email graph and   *)
(*                          processEmailsChronologically)                  *)
(*   lib/state-manager.ts  (ApplicationStateManager: the IndexedDB store)  *)
(*                                                                         *)
(* Two specifications share the module's variables:                        *)
(*   SpecChannel / FairChannel  the WebLLMWorker channel under arbitrary   *)
(*                              concurrent callers;                        *)
(*   Spec                       the per-email graph over batches of        *)
(*                              emails, with the adapter's results drawn   *)
(*                              from the outcomes the channel can give.    *)
(***************************************************************************)
EXTENDS Integers, Sequences, FiniteSets, TLC

(***************************************************************************)
(* Bounds of the model.                                                    *)
(***************************************************************************)
\* requests dispatched through WebLLMWorker.postMessage in one behaviour
MaxReq == 3
\* readings of Date.now() are 0..MaxClock
MaxClock == 1
\* emails handed to processEmailsChronologically in one behaviour
MaxEmails == 2
\* environment faults in one behaviour: requests that fail on the channel
\* (error, timeout, worker failure), Registry saves that fail, terminate()
MaxFaults == 1
\* emails fetched for one run of the dashboard
MaxRunEmails == 2
\* emails per chunk of the AI phase. The dashboard sets
\* GMAIL_RATE_LIMITS.WEBLLM_BATCH_SIZE to 5; the model runs the same loop with
\* smaller chunks so that a run of MaxRunEmails emails has several of them
\* (chunks of several emails are what Spec hands to
\* processEmailsChronologically)
MaxChunk == 1
\* calls of determineStatus made on the adapter directly
MaxCalls == 2
\* message ids handed to fetchEmailBatch
MaxIds == 3
\* message ids per retrieval batch. The dashboard sets
\* GMAIL_RATE_LIMITS.BATCH_SIZE to 10; the model runs the same loop with
\* smaller batches so that MaxIds ids make several of them
MaxFetchBatch == 2
\* calls of handleRetrieveAndProcessEmails after the component is mounted
MaxRuns == 2
\* messages the worker script receives
MaxMsgs == 2

VARIABLES
  \* ---- WebLLMWorker (channel) ----
  now,              \* the reading of Date.now()
  worker,           \* this.worker: "null" or "live"
  isInitialized,    \* this.isInitialized
  reqs,             \* every promise made by postMessage, in dispatch order
  pendingRequests,  \* this.pendingRequests: id -> the request whose {res, rej} it holds
  inbox,            \* messages posted to the worker and not yet answered
  outbox,           \* responses posted by the worker and not yet handled
  \* ---- EmailProcessingApp / ApplicationStateManager ----
  store,            \* the IndexedDB object store "knownApplications"
  knownApplications,\* the map loaded by processEmailsChronologically, shared by reference
  emails,           \* sortedEmails of the current call
  idx,              \* position of the loop over sortedEmails
  pc,               \* the graph node to run next ("idle": no call in progress)
  st,               \* the graph state of the current email
  results,          \* results of the current call
  \* ---- bookkeeping of the model ----
  nEmails,          \* emails handed over so far
  faults,           \* environment faults so far
  cur,              \* what has happened to the current email
  logs,             \* the same for every email whose outcome was pushed
  \* ---- Dashboard (the run over the fetched emails) ----
  runPc,            \* position of handleRetrieveAndProcessEmails / processEmailsWithAI
  runEmails,        \* the emails handed to processEmailsWithAI
  runI,             \* the loop variable i of processEmailsWithAI
  runResults,       \* the local results of processEmailsWithAI
  progress,         \* the progress state of the component
  authError,        \* the authError state of the component
  isProcessing,     \* the isProcessing state of the component
  abortControllerRef, \* abortControllerRef.current: "null" or "live"
  aborted,          \* signal.aborted of that controller
  run,              \* bookkeeping: what has happened in the run
  \* ---- WebLLMWorker (typed adapter called on its own) ----
  statusCalls,      \* bookkeeping: every call of determineStatus and how it ended
  \* ---- Dashboard (fetchEmailBatch) ----
  fetch,            \* pc, messageIds, i and emails of fetchEmailBatch, with the
                    \* batches fetched so far and how the call ended
  \* ---- Dashboard (the component from its mount on) ----
  emailProcessorRef,\* emailProcessorRef.current and how far its initialize() got
  handler,          \* position and locals of handleRetrieveAndProcessEmails, with
                    \* bookkeeping of the runs so far
  \* ---- the worker script ----
  script            \* engine && isInitialized of the script, whether it has
                    \* closed, the messages it received and those it posted

chanVars == <<now, worker, isInitialized, reqs, pendingRequests, inbox, outbox>>

runVars == <<runPc, runEmails, runI, runResults, progress, authError,
             isProcessing, abortControllerRef, aborted, run>>

adapterVars == <<statusCalls>>

fetchVars == <<fetch>>

handlerVars == <<emailProcessorRef, handler>>

scriptVars == <<script>>

pipeVars == <<store, knownApplications, emails, idx, pc, st, results,
              nEmails, faults, cur, logs,
              runPc, runEmails, runI, runResults, progress, authError,
              isProcessing, abortControllerRef, aborted, run, statusCalls,
              fetch, emailProcessorRef, handler, script>>

vars == <<now, worker, isInitialized, reqs, pendingRequests, inbox, outbox,
          store, knownApplications, emails, idx, pc, st, results,
          nEmails, faults, cur, logs,
          runPc, runEmails, runI, runResults, progress, authError,
          isProcessing, abortControllerRef, aborted, run, statusCalls,
          fetch, emailProcessorRef, handler, script>>

(***************************************************************************)
(* Optional values (undefined / null in the source): the empty sequence or *)
(* a one-element sequence.                                                 *)
(***************************************************************************)
None == << >>
Some(x) == <<x>>

(***************************************************************************)
(* WebLLMWorker: the channel.                                              *)
(***************************************************************************)
\* the request types the adapter sends (WorkerMessage.type)
Kinds == {"classify", "extract", "status"}

\* id: `classify_${Date.now()}`, `extact_${Date.now()}`, `status_${Date.now()}`:
\* the kind's prefix and the clock reading, nothing else
MessageId(kind, t) == <<kind, t>>

\* id: "init", the fixed id of the initialize request
InitId == <<"init", 0>>

Range(f) == {f[x] : x \in DOMAIN f}

\* a promise made by postMessage. settled counts the calls of its resolve or
\* reject function; outcome and value are those of the first call; timer is
\* TRUE while the setTimeout of the request is armed.
NewRequest(kind, id, armed) ==
  [kind |-> kind, id |-> id, settled |-> 0, outcome |-> "none", value |-> 0,
   timer |-> armed]

\* one call of a promise's resolve or reject function
Settle(q, how, val) ==
  [q EXCEPT !.settled = @ + 1,
            !.outcome = IF q.settled = 0 THEN how ELSE @,
            !.value = IF q.settled = 0 THEN val ELSE @]

\* (mutation) the wrapped functions without clearTimeout
WrappedSettleNoClear(q, how, val) == Settle(q, how, val)

\* the wrapped res / rej stored in pendingRequests: clearTimeout, then the
\* original function
WrappedSettle(q, how, val) == [Settle(q, how, val) EXCEPT !.timer = FALSE]

\* the setTimeout callback: rej(`Request ... timed out`) on the original function
TimeoutSettle(q) == [Settle(q, "timeout", 0) EXCEPT !.timer = FALSE]

\* postMessage(message), with this.worker = w
PostMessage(w, kind, id) ==
  LET r == Len(reqs) + 1 IN
  IF w = "null"
  THEN /\ reqs' = Append(reqs, Settle(NewRequest(kind, id, FALSE), "noworker", 0))
       /\ UNCHANGED <<pendingRequests, inbox>>
  ELSE /\ reqs' = Append(reqs, NewRequest(kind, id, TRUE))
       /\ pendingRequests' = (id :> r) @@ pendingRequests
       /\ inbox' = inbox \cup {r}

\* rejectAllPending(error): rej of every entry, then clear()
RejectAllPending(how) ==
  /\ reqs' = [r \in DOMAIN reqs |->
                IF r \in Range(pendingRequests)
                THEN WrappedSettle(reqs[r], how, 0) ELSE reqs[r]]
  /\ pendingRequests' = << >>

\* Date.now() advances
Tick ==
  /\ now < MaxClock
  /\ now' = now + 1
  /\ UNCHANGED <<worker, isInitialized, reqs, pendingRequests, inbox, outbox>>
  /\ UNCHANGED pipeVars

\* initialize(): new Worker, then await postMessage({id: "init", ...}).
\* The program calls it once per WebLLMWorker (EmailProcessingApp.initialize).
Initialize ==
  /\ Len(reqs) < MaxReq
  /\ \A r \in DOMAIN reqs : reqs[r].kind # "initialize"
  /\ worker = "null"
  /\ worker' = "live"
  /\ PostMessage("live", "initialize", InitId)
  /\ UNCHANGED <<now, isInitialized, outbox>>
  /\ UNCHANGED pipeVars

\* classify / extractJobData / determineStatus with the worker initialized:
\* the request is dispatched with the id built from the clock
Dispatch(kind) ==
  /\ Len(reqs) < MaxReq
  /\ isInitialized
  /\ PostMessage(worker, kind, MessageId(kind, now))
  /\ UNCHANGED <<now, worker, isInitialized, outbox>>
  /\ UNCHANGED pipeVars

\* the worker's self.onmessage: one response {id, result} or {id, error}
WorkerRespond(r, failed) ==
  /\ r \in inbox
  /\ inbox' = inbox \ {r}
  /\ outbox' = outbox \cup {[id |-> reqs[r].id, of |-> r, err |-> failed]}
  /\ UNCHANGED <<now, worker, isInitialized, reqs, pendingRequests>>
  /\ UNCHANGED pipeVars

\* (mutation) a lookup that falls back on some pending entry when the id is
\* unknown
PendingRequestOrAny(id) ==
  IF id \in DOMAIN pendingRequests THEN Some(pendingRequests[id])
  ELSE IF DOMAIN pendingRequests = {} THEN None
  ELSE Some(pendingRequests[CHOOSE i \in DOMAIN pendingRequests : TRUE])

\* this.pendingRequests.get(id): undefined for an unknown id
PendingRequest(id) ==
  IF id \in DOMAIN pendingRequests THEN Some(pendingRequests[id]) ELSE None

\* handleWorkerMessage(event) for a response {id, result | error}
HandleWorkerMessage(m) ==
  /\ m \in outbox
  /\ outbox' = outbox \ {m}
  /\ IF PendingRequest(m.id) = None
     THEN UNCHANGED <<reqs, pendingRequests, isInitialized>>
     ELSE LET r == PendingRequest(m.id)[1] IN
          /\ pendingRequests' =
               [i \in DOMAIN pendingRequests \ {m.id} |-> pendingRequests[i]]
          /\ reqs' = [reqs EXCEPT
                        ![r] = WrappedSettle(@, IF m.err THEN "error" ELSE "result", m.of)]
          \* initialize(): `this.isInitialized = true` once the init promise resolves
          /\ isInitialized' =
               IF reqs[r].kind = "initialize" /\ ~m.err /\ reqs[r].settled = 0
               THEN TRUE ELSE isInitialized
  /\ UNCHANGED <<now, worker, inbox>>
  /\ UNCHANGED pipeVars

\* the setTimeout callback of request r, 60000 ms after its dispatch
TimerFire(r) ==
  /\ r \in DOMAIN reqs
  /\ reqs[r].timer
  /\ pendingRequests' =
       [i \in DOMAIN pendingRequests \ {reqs[r].id} |-> pendingRequests[i]]
  /\ reqs' = [reqs EXCEPT ![r] = TimeoutSettle(@)]
  /\ UNCHANGED <<now, worker, isInitialized, inbox, outbox>>
  /\ UNCHANGED pipeVars

\* worker.onerror
WorkerError ==
  /\ worker = "live"
  /\ RejectAllPending("fatal")
  /\ UNCHANGED <<now, worker, isInitialized, inbox, outbox>>
  /\ UNCHANGED pipeVars

\* terminate(): worker.terminate() discards the worker's queued tasks and the
\* messages it has posted that were not yet handled
TerminateWorker ==
  /\ worker # "null"
  /\ worker' = "null"
  /\ isInitialized' = FALSE
  /\ RejectAllPending("terminated")
  /\ inbox' = {}
  /\ outbox' = {}
  /\ UNCHANGED now

Terminate ==
  /\ TerminateWorker
  /\ UNCHANGED pipeVars

(***************************************************************************)
(* Values.  A string is a sequence of characters.                          *)
(***************************************************************************)
\* JavaScript truthiness of an optional string: undefined and "" are falsy
Truthy(s) == s # None /\ s[1] # << >>

\* `${x}` in a template literal: undefined prints as "undefined"
TemplateStr(s) ==
  IF s = None THEN <<"u", "n", "d", "e", "f", "i", "n", "e", "d">> ELSE s[1]

\* x || 'unknown'
OrUnknown(s) == IF Truthy(s) THEN s[1] ELSE <<"u", "n", "k", "n", "o", "w", "n">>

\* x || "Unknown" (state-manager.ts)
OrUnknownCap(s) ==
  IF Truthy(s) THEN s ELSE Some(<<"U", "n", "k", "n", "o", "w", "n">>)

\* String.prototype.toLowerCase on the letters of the model
LowerChar(c) == IF c = "A" THEN "a" ELSE IF c = "B" THEN "b" ELSE c
ToLowerCase(str) == [i \in DOMAIN str |-> LowerChar(str[i])]

(***************************************************************************)
(* EmailProcessingApp: the application key and the Registry entries.       *)
(***************************************************************************)
\* appKey = `${jobData.company_name}_${jobData.job_title || 'unknown'}`
AppKey(jobData) ==
  TemplateStr(jobData.company_name) \o <<"_">> \o OrUnknown(jobData.job_title)

\* (mutation) the entry of a first instance created with an empty history
NewEntryEmptyHistory(jobData, date) ==
  [company_name |-> jobData.company_name, job_title |-> jobData.job_title,
   first_seen |-> date, status_history |-> << >>, email_count |-> 1,
   current_status |-> None, last_updated |-> None]

\* { ...state.jobData, first_seen: state.email.date, status_history: ["applied"],
\*   email_count: 1 }: current_status and last_updated are not set
NewEntry(jobData, date) ==
  [company_name |-> jobData.company_name, job_title |-> jobData.job_title,
   first_seen |-> date, status_history |-> <<"applied">>, email_count |-> 1,
   current_status |-> None, last_updated |-> None]

\* (mutation) a match that also moves first_seen to the matching email's date
IncrementCountAndReseat(entry) ==
  [entry EXCEPT !.email_count = @ + 1, !.first_seen = emails[idx].date]

\* knownApps[appKey].email_count = (knownApps[appKey].email_count || 0) + 1
IncrementCount(entry) ==
  [entry EXCEPT !.email_count = (IF @ = 0 THEN 0 ELSE @) + 1]

\* (mutation) the push without the assignment of current_status
PushStatusOnly(entry, status) ==
  [entry EXCEPT !.status_history = Append(@, status)]

\* status_history.push(applicationStatus); current_status = applicationStatus
PushStatus(entry, status) ==
  [entry EXCEPT !.status_history = Append(@, status),
                !.current_status = Some(status)]

(***************************************************************************)
(* ApplicationStateManager: the persisted Registry.                        *)
(***************************************************************************)
\* the applicationRecord written for one entry at clock reading t. The
\* fields the pipeline never reads (application_date, contact_email, job_id,
\* location, salary_range) are left out; application_key is the key itself.
ApplicationRecord(app, t) ==
  [company_name |-> OrUnknownCap(app.company_name),
   job_title |-> OrUnknownCap(app.job_title),
   first_seen |-> app.first_seen,
   status_history |-> app.status_history,
   current_status |-> IF app.current_status = None THEN Some("applied")
                      ELSE app.current_status,
   email_count |-> IF app.email_count = 0 THEN 1 ELSE app.email_count,
   last_updated |-> IF app.last_updated = None THEN Some(t) ELSE app.last_updated]

\* updateKnownApplications(known) when the transaction succeeds: one put per key
UpdateKnownApplications(db, known, t) ==
  [k \in DOMAIN db \cup DOMAIN known |->
     IF k \in DOMAIN known THEN ApplicationRecord(known[k], t) ELSE db[k]]

\* getKnownApplications(): apps[app.application_key] = app for every record
GetKnownApplications(db) == db

(***************************************************************************)
(* WebLLMWorker: the typed adapter over a settled request.                 *)
(* A response is [ok, result]: ok is FALSE when the promise was rejected   *)
(* (worker error, timeout, worker failure).                                *)
(***************************************************************************)
\* classify: result === true || result === "YES"; catch: return false
Classify(resp) == IF resp.ok THEN resp.result = TRUE ELSE FALSE

\* extractJobData: return result; catch: return null
ExtractJobData(resp) == IF resp.ok THEN resp.result ELSE None

\* determineStatus: validStatuses
ValidStatuses ==
  {"applied", "under_review", "interview_scheduled", "interview_completed",
   "offer_received", "offer_accepted", "rejected", "withdrawn", "pending"}

\* (mutation) the worker's answer returned without the validStatuses check
DetermineStatusUnchecked(resp) == IF resp.ok THEN resp.result ELSE "pending"

\* determineStatus: validStatuses.includes(result) ? result : "pending";
\* catch: return "pending"
DetermineStatus(resp) ==
  IF resp.ok
  THEN IF resp.result \in ValidStatuses THEN resp.result ELSE "pending"
  ELSE "pending"

\* the worker's processPrompt, case 'status': its own validStatuses
WorkerStatuses ==
  {"applied", "under_review", "interview_scheduled", "interview_completed",
   "offer_received", "offer_accepted", "rejected", "withdraw", "pending"}

(***************************************************************************)
(* Inputs of the pipeline: what the inference worker answers.              *)
(***************************************************************************)
JobData(company, title) == [company_name |-> company, job_title |-> title]

\* the company name "undefined", which `${undefined}` also prints
Undefined == <<"u", "n", "d", "e", "f", "i", "n", "e", "d">>

\* answers to an extract request: the same company and title in two letter
\* cases, job data without a title, and job data without a company name.
\* (An answer that does not parse is a rejected request: see Responses.)
ExtractAnswers ==
  { Some(JobData(Some(<<"A">>), Some(<<"b">>))),
    Some(JobData(Some(<<"a">>), Some(<<"b">>))),
    Some(JobData(Some(Undefined), None)),
    Some(JobData(None, None)) }

\* answers to a classify request (processPrompt returns a boolean)
ClassifyAnswers == {TRUE, FALSE}

\* answers to a status request, among WorkerStatuses
StatusAnswers == {"applied", "interview_scheduled"}

\* the settled requests a call can see: every answer, and a rejection while
\* the fault budget lasts
Responses(answers, dummy) ==
  {[ok |-> TRUE, result |-> a] : a \in answers}
    \cup (IF faults < MaxFaults THEN {[ok |-> FALSE, result |-> dummy]} ELSE {})

\* dates of emails (Date.parse of the Date header)
Dates == {1, 2}

\* emails.sort((a, b) => date(a) - date(b)): a stable sort by date
RECURSIVE InsertByDate(_, _)
InsertByDate(e, s) ==
  IF s = << >> THEN <<e>>
  ELSE IF Head(s).date > e.date THEN <<e>> \o s
  ELSE <<Head(s)>> \o InsertByDate(e, Tail(s))

RECURSIVE SortByDate(_)
SortByDate(s) ==
  IF s = << >> THEN << >>
  ELSE InsertByDate(s[Len(s)], SortByDate(SubSeq(s, 1, Len(s) - 1)))

\* the initialState of one graph run (isJobRelated, jobData, isFirstInstance
\* and applicationStatus undefined; knownApplications is the shared map)
InitialState ==
  [isJobRelated |-> None, jobData |-> None, isFirstInstance |-> None,
   applicationStatus |-> None, errors |-> << >>]

\* bookkeeping for one email: the Registry before its run, the requests
\* dispatched for it, how each stage's call ended, whether a save threw
NewLog(email, known) ==
  [email |-> email, before |-> known, calls |-> {},
   classify |-> "none", extract |-> "none", status |-> "none",
   jobData |-> None, threw |-> FALSE]

NoLog == NewLog([id |-> 0, date |-> 0], << >>)

\* no call of processEmailsChronologically in progress, nothing persisted
PipeIdle ==
  /\ store = << >>
  /\ knownApplications = << >>
  /\ emails = << >>
  /\ idx = 0
  /\ pc = "idle"
  /\ st = InitialState
  /\ results = << >>
  /\ nEmails = 0
  /\ faults = 0
  /\ cur = NoLog
  /\ logs = << >>

\* the progress state before any run
IdleProgress ==
  [totalEmails |-> 0, processedEmails |-> 0, currentBatch |-> 0,
   totalBatches |-> 0, currentStatus |-> "idle", results |-> << >>,
   errors |-> << >>]

\* bookkeeping of a run: whether it started, whether an aborted signal was
\* seen at a chunk boundary, whether the worker's error event fired, the
\* chunks handed to processEmailsChronologically and how each call ended,
\* and how processEmailsWithAI ended ("no", "returned" or "threw")
NoRun ==
  [started |-> FALSE, observed |-> FALSE, fatal |-> FALSE, chunks |-> << >>,
   ended |-> "no"]

\* fetchEmailBatch not called
NoFetch ==
  [pc |-> "idle", messageIds |-> << >>, i |-> 0, emails |-> << >>,
   batches |-> << >>, ended |-> "no"]

\* handleRetrieveAndProcessEmails not called. pc: where the handler awaits;
\* ids, emails: how many ids fetchEmailList and emails fetchEmailBatch
\* returned; i, results: the loop variable and results.length of
\* processEmailsWithAI; chunk: how the call in flight will end. Bookkeeping:
\* active, the calls of the handler that have not reached their finally;
\* runs, the calls so far; exit, how each of them ended; startedAt, how far
\* initialize() was when the last call passed its checks; handed, how far it
\* was at each call of processEmailsChronologically of the last call
NoHandler ==
  [pc |-> "idle", ids |-> 0, emails |-> 0, i |-> 0, results |-> 0,
   chunk |-> "none", active |-> 0, runs |-> 0, exit |-> << >>,
   startedAt |-> "none", handed |-> {}]

\* emailProcessorRef.current after `new EmailProcessingApp()` and a
\* successful `await initialize()`: the object is set, its stateManager has
\* a database, its processingGraph is built
Initialized ==
  [current |-> TRUE, stateManager |-> TRUE, processingGraph |-> TRUE,
   initialize |-> "done"]

\* emailProcessorRef.current when the component mounts
Mounted ==
  [current |-> FALSE, stateManager |-> FALSE, processingGraph |-> FALSE,
   initialize |-> "import"]

\* the worker script as loaded: `let engine = null; let isInitialized =
\* false`, nothing received, nothing posted
Loaded ==
  [ready |-> FALSE, closed |-> FALSE, received |-> << >>, posted |-> << >>]

\* the Dashboard component as mounted, with no run started
RunIdle ==
  /\ runPc = "idle"
  /\ runEmails = << >>
  /\ runI = 0
  /\ runResults = << >>
  /\ progress = IdleProgress
  /\ authError = None
  /\ isProcessing = FALSE
  /\ abortControllerRef = "null"
  /\ aborted = FALSE
  /\ run = NoRun

InitChannel ==
  /\ now = 0
  /\ worker = "null"
  /\ isInitialized = FALSE
  /\ reqs = << >>
  /\ pendingRequests = << >>
  /\ inbox = {}
  /\ outbox = {}
  /\ PipeIdle
  /\ RunIdle
  /\ statusCalls = << >>
  /\ fetch = NoFetch
  /\ emailProcessorRef = Initialized
  /\ handler = NoHandler
  /\ script = Loaded

NextChannel ==
  \/ Tick
  \/ Initialize
  \/ \E kind \in Kinds : Dispatch(kind)
  \/ \E r \in inbox, failed \in BOOLEAN : WorkerRespond(r, failed)
  \/ \E m \in outbox : HandleWorkerMessage(m)
  \/ \E r \in DOMAIN reqs : TimerFire(r)
  \/ WorkerError
  \/ Terminate

SpecChannel == InitChannel /\ [][NextChannel]_vars

\* setTimeout callbacks that stay armed are eventually run by the event loop
FairChannel == SpecChannel /\ \A r \in 1..MaxReq : WF_vars(TimerFire(r))

(***************************************************************************)
(* EmailProcessingApp: the graph nodes and processEmailsChronologically.   *)
(***************************************************************************)
CurrentEmail == emails[idx]

\* results.push({...}) after a graph run that returned finalState
Outcome(email, finalState) ==
  [emailId |-> email.id,
   isJobRelated |-> IF finalState.isJobRelated = None THEN FALSE
                    ELSE finalState.isJobRelated[1],
   jobData |-> finalState.jobData,
   isFirstInstance |-> IF finalState.isFirstInstance = None THEN FALSE
                       ELSE finalState.isFirstInstance[1],
   applicationStatus |-> IF finalState.applicationStatus = None THEN "unknown"
                         ELSE finalState.applicationStatus[1],
   processingErrors |-> finalState.errors]

\* results.push({...}) in the catch of the loop
ErrorOutcome(email) ==
  [emailId |-> email.id, isJobRelated |-> FALSE, jobData |-> None,
   isFirstInstance |-> FALSE, applicationStatus |-> "error",
   processingErrors |-> <<"error">>]

\* the entry of one finished email in logs
LogEntry(outcome, threw) ==
  [email |-> cur.email, before |-> cur.before, calls |-> cur.calls,
   classify |-> cur.classify, extract |-> cur.extract, status |-> cur.status,
   jobData |-> cur.jobData, threw |-> threw, finalState |-> st,
   outcome |-> outcome, after |-> knownApplications]

\* (mutation) results.push placed before the save it follows: when the save
\* rejects, the catch pushes a second outcome for the same email
PushBeforeSave(outcome, threw) ==
  LET pushed == IF threw THEN <<Outcome(emails[idx], st), outcome>>
                ELSE <<outcome>>
  IN /\ results' = results \o pushed
     /\ logs' = logs \o [k \in DOMAIN pushed |-> LogEntry(pushed[k], threw)]
     /\ st' = InitialState
     /\ IF idx < Len(emails)
        THEN /\ idx' = idx + 1
             /\ pc' = "classifyEmail"
             /\ cur' = NewLog(emails[idx + 1], knownApplications)
             /\ UNCHANGED emails
        ELSE /\ idx' = 0
             /\ pc' = "idle"
             /\ cur' = NoLog
             /\ emails' = << >>

\* push the outcome of the current email and go on with the next one, or return
PushAndContinue(outcome, threw) ==
  /\ results' = Append(results, outcome)
  /\ logs' = Append(logs, LogEntry(outcome, threw))
  /\ st' = InitialState
  /\ IF idx < Len(emails)
     THEN /\ idx' = idx + 1
          /\ pc' = "classifyEmail"
          /\ cur' = NewLog(emails[idx + 1], knownApplications)
          /\ UNCHANGED emails
     ELSE /\ idx' = 0
          /\ pc' = "idle"
          /\ cur' = NoLog
          /\ emails' = << >>

\* how a call of updateKnownApplications can end (faults never when there is
\* nothing to put):
\*   "stored"   every put succeeded and the promise resolved;
\*   "rejected" a put failed before the last one completed: its req.onerror
\*              counts it, transaction.onerror rejects, the transaction aborts;
\*   "lost"     the put completing last failed: its req.onerror calls
\*              checkComplete, which resolves the promise before
\*              transaction.onerror runs, and the transaction aborts
SaveResults ==
  {"stored"} \cup (IF faults < MaxFaults /\ DOMAIN knownApplications # {}
                   THEN {"rejected", "lost"} ELSE {})

\* processEmailsChronologically(batch) up to the first graph run: load the
\* Registry, sort, start the loop
EnterLoop(batch) ==
  /\ pc = "idle"
  /\ knownApplications' = GetKnownApplications(store)
  /\ emails' = SortByDate(batch)
  /\ results' = << >>
  /\ idx' = 1
  /\ pc' = "classifyEmail"
  /\ st' = InitialState
  /\ cur' = NewLog(emails'[1], knownApplications')
  /\ nEmails' = nEmails + Len(batch)
  /\ UNCHANGED <<store, faults, logs>>
  /\ UNCHANGED chanVars
  /\ UNCHANGED adapterVars
  /\ UNCHANGED handlerVars
  /\ UNCHANGED scriptVars
  /\ UNCHANGED fetchVars

\* processEmailsChronologically(batch), called on its own
ProcessEmailsChronologically(batch) ==
  /\ EnterLoop(batch)
  /\ UNCHANGED runVars

\* (mutation) an unconditional edge from classifyEmail to extractJobData
AlwaysExtract(isJobRelated) == "extractJobData"

\* the conditional edge after classifyEmail:
\* (state) => state.isJobRelated ? "extractJobData" : "finalizeResult"
ConditionalEdge(isJobRelated) ==
  IF isJobRelated THEN "extractJobData" ELSE "finalizeResult"

\* classifyEmailNode
ClassifyEmailNode ==
  /\ pc = "classifyEmail"
  /\ IF ~isInitialized
     THEN \* classify throws "WebLLM Worker not initialized": the node's catch
          /\ st' = [st EXCEPT !.isJobRelated = Some(FALSE),
                              !.errors = Append(@, "Classification failed")]
          /\ pc' = ConditionalEdge(FALSE)
          /\ cur' = [cur EXCEPT !.classify = "throw"]
          /\ UNCHANGED faults
     ELSE \E resp \in Responses(ClassifyAnswers, FALSE) :
            LET isJobRelated == Classify(resp) IN
            /\ st' = [st EXCEPT !.isJobRelated = Some(isJobRelated)]
            /\ pc' = ConditionalEdge(isJobRelated)
            /\ cur' = [cur EXCEPT !.classify = IF resp.ok THEN "ok" ELSE "failed",
                                  !.calls = @ \cup {"classify"}]
            /\ faults' = faults + (IF resp.ok THEN 0 ELSE 1)
  /\ UNCHANGED <<store, knownApplications, emails, idx, results, nEmails, logs>>
  /\ UNCHANGED chanVars
  /\ UNCHANGED runVars
  /\ UNCHANGED adapterVars
  /\ UNCHANGED handlerVars
  /\ UNCHANGED scriptVars
  /\ UNCHANGED fetchVars

\* extractJobDataNode
ExtractJobDataNode ==
  /\ pc = "extractJobData"
  /\ IF ~isInitialized
     THEN /\ st' = [st EXCEPT !.jobData = None,
                              !.errors = Append(@, "Job data extraction failed")]
          /\ cur' = [cur EXCEPT !.extract = "throw"]
          /\ UNCHANGED faults
     ELSE \E resp \in Responses(ExtractAnswers, None) :
            LET jobData == ExtractJobData(resp) IN
            /\ st' = [st EXCEPT !.jobData = jobData]
            /\ cur' = [cur EXCEPT !.extract = IF resp.ok THEN "ok" ELSE "failed",
                                  !.calls = @ \cup {"extract"},
                                  !.jobData = jobData]
            /\ faults' = faults + (IF resp.ok THEN 0 ELSE 1)
  /\ pc' = "checkFirstInstance"
  /\ UNCHANGED <<store, knownApplications, emails, idx, results, nEmails, logs>>
  /\ UNCHANGED chanVars
  /\ UNCHANGED runVars
  /\ UNCHANGED adapterVars
  /\ UNCHANGED handlerVars
  /\ UNCHANGED scriptVars
  /\ UNCHANGED fetchVars

\* checkFirstInstanceNode
CheckFirstInstanceNode ==
  /\ pc = "checkFirstInstance"
  /\ IF st.jobData = None \/ ~Truthy(st.jobData[1].company_name)
     THEN /\ st' = [st EXCEPT !.isFirstInstance = Some(FALSE)]
          /\ UNCHANGED knownApplications
     ELSE LET appKey == AppKey(st.jobData[1])
              isFirstInstance == appKey \notin DOMAIN knownApplications
          IN /\ knownApplications' =
                  IF isFirstInstance
                  THEN (appKey :> NewEntry(st.jobData[1], CurrentEmail.date))
                         @@ knownApplications
                  ELSE [knownApplications EXCEPT ![appKey] = IncrementCount(@)]
             /\ st' = [st EXCEPT !.isFirstInstance = Some(isFirstInstance)]
  /\ pc' = "determineStatus"
  /\ UNCHANGED <<store, emails, idx, results, nEmails, faults, cur, logs>>
  /\ UNCHANGED chanVars
  /\ UNCHANGED runVars
  /\ UNCHANGED adapterVars
  /\ UNCHANGED handlerVars
  /\ UNCHANGED scriptVars
  /\ UNCHANGED fetchVars

\* the "Update status history" block of determineStatusNode
UpdateStatusHistory(known, jobData, applicationStatus) ==
  IF jobData # None /\ AppKey(jobData[1]) \in DOMAIN known
  THEN [known EXCEPT ![AppKey(jobData[1])] = PushStatus(@, applicationStatus)]
  ELSE known

\* determineStatusNode
DetermineStatusNode ==
  /\ pc = "determineStatus"
  /\ IF ~isInitialized
     THEN /\ st' = [st EXCEPT !.applicationStatus = Some("unknown"),
                              !.errors = Append(@, "Status determination failed")]
          /\ cur' = [cur EXCEPT !.status = "throw"]
          /\ UNCHANGED <<knownApplications, faults>>
     ELSE \E resp \in Responses(StatusAnswers, "") :
            LET applicationStatus == DetermineStatus(resp) IN
            /\ knownApplications' =
                 UpdateStatusHistory(knownApplications, st.jobData, applicationStatus)
            /\ st' = [st EXCEPT !.applicationStatus = Some(applicationStatus)]
            /\ cur' = [cur EXCEPT !.status = IF resp.ok THEN "ok" ELSE "failed",
                                  !.calls = @ \cup {"status"}]
            /\ faults' = faults + (IF resp.ok THEN 0 ELSE 1)
  /\ pc' = "finalizeResult"
  /\ UNCHANGED <<store, emails, idx, results, nEmails, logs>>
  /\ UNCHANGED chanVars
  /\ UNCHANGED runVars
  /\ UNCHANGED adapterVars
  /\ UNCHANGED handlerVars
  /\ UNCHANGED scriptVars
  /\ UNCHANGED fetchVars

\* finalizeResultNode: save the Registry; a rejected save makes
\* processingGraph.invoke throw, and the loop's catch pushes the error outcome
FinalizeResultNode ==
  /\ pc = "finalizeResult"
  /\ \E saved \in SaveResults :
       IF saved \in {"stored", "lost"}
       THEN /\ store' = IF saved = "stored"
                        THEN UpdateKnownApplications(store, knownApplications, now)
                        ELSE store
            /\ faults' = faults + (IF saved = "lost" THEN 1 ELSE 0)
            /\ pc' = "updatePersistentState"
            /\ UNCHANGED <<emails, idx, st, results, cur, logs>>
       ELSE /\ faults' = faults + 1
            /\ PushAndContinue(ErrorOutcome(CurrentEmail), TRUE)
            /\ UNCHANGED store
  /\ UNCHANGED <<knownApplications, nEmails>>
  /\ UNCHANGED chanVars
  /\ UNCHANGED runVars
  /\ UNCHANGED adapterVars
  /\ UNCHANGED handlerVars
  /\ UNCHANGED scriptVars
  /\ UNCHANGED fetchVars

\* the loop body after invoke: "Update persistent state", then results.push
UpdatePersistentState ==
  /\ pc = "updatePersistentState"
  /\ \E saved \in SaveResults :
       IF saved \in {"stored", "lost"}
       THEN /\ store' = IF saved = "stored"
                        THEN UpdateKnownApplications(store, knownApplications, now)
                        ELSE store
            /\ faults' = faults + (IF saved = "lost" THEN 1 ELSE 0)
            /\ PushAndContinue(Outcome(CurrentEmail, st), FALSE)
       ELSE /\ faults' = faults + 1
            /\ PushAndContinue(ErrorOutcome(CurrentEmail), TRUE)
            /\ UNCHANGED store
  /\ UNCHANGED <<knownApplications, nEmails>>
  /\ UNCHANGED chanVars
  /\ UNCHANGED runVars
  /\ UNCHANGED adapterVars
  /\ UNCHANGED handlerVars
  /\ UNCHANGED scriptVars
  /\ UNCHANGED fetchVars

\* terminate() called by the environment while emails are processed
TerminateDuringRun ==
  /\ faults < MaxFaults
  /\ faults' = faults + 1
  /\ TerminateWorker
  /\ UNCHANGED <<store, knownApplications, emails, idx, pc, st, results,
                 nEmails, cur, logs>>
  /\ UNCHANGED runVars
  /\ UNCHANGED adapterVars
  /\ UNCHANGED handlerVars
  /\ UNCHANGED scriptVars
  /\ UNCHANGED fetchVars

(***************************************************************************)
(* Dashboard: handleRetrieveAndProcessEmails, processEmailsWithAI and      *)
(* cancelProcessing. The Gmail retrieval that precedes the AI phase is     *)
(* left out: the emails it fetched are the input of the run, in the order  *)
(* it returned them.                                                       *)
(***************************************************************************)
\* GMAIL_RATE_LIMITS.WEBLLM_BATCH_SIZE (5 in the code, MaxChunk here)
WEBLLM_BATCH_SIZE == MaxChunk

\* Math.ceil(n / d)
Ceil(n, d) == (n + d - 1) \div d

\* emails.slice(i, i + webllmBatchSize)
Slice(s, i, size) ==
  SubSeq(s, i + 1, IF i + size < Len(s) THEN i + size ELSE Len(s))

\* (mutation) a loop that never looks at the signal
SignalIgnored(signalAborted) == FALSE

\* if (signal.aborted) throw new Error('Operation cancelled')
ThrowIfAborted(signalAborted) == signalAborted

\* i += webllmBatchSize
NextIndex(i) == i + WEBLLM_BATCH_SIZE

\* the finally block of handleRetrieveAndProcessEmails
Finally ==
  /\ isProcessing' = FALSE
  /\ abortControllerRef' = "null"
  /\ runPc' = "done"

\* handleRetrieveAndProcessEmails up to the first chunk boundary of
\* processEmailsWithAI(list, signal): a fresh AbortController, progress reset,
\* results = [], totalBatches computed
HandleRetrieveAndProcessEmails(list) ==
  /\ runPc = "idle"
  /\ pc = "idle"
  /\ isProcessing' = TRUE
  /\ authError' = None
  /\ abortControllerRef' = "live"
  /\ aborted' = FALSE
  /\ progress' = [IdleProgress EXCEPT
                    !.totalEmails = Len(list),
                    !.totalBatches = Ceil(Len(list), WEBLLM_BATCH_SIZE),
                    !.currentStatus = "Processing emails with AI..."]
  /\ runEmails' = list
  /\ runI' = 0
  /\ runResults' = << >>
  /\ runPc' = "boundary"
  /\ run' = [NoRun EXCEPT !.started = TRUE]
  /\ UNCHANGED <<store, knownApplications, emails, idx, pc, st, results,
                 nEmails, faults, cur, logs>>
  /\ UNCHANGED chanVars
  /\ UNCHANGED adapterVars
  /\ UNCHANGED handlerVars
  /\ UNCHANGED scriptVars
  /\ UNCHANGED fetchVars

\* cancelProcessing: abort the controller of the run in progress
CancelProcessing ==
  /\ abortControllerRef = "live"
  /\ ~aborted
  /\ aborted' = TRUE
  /\ UNCHANGED <<runPc, runEmails, runI, runResults, progress, authError,
                 isProcessing, abortControllerRef, run>>
  /\ UNCHANGED <<store, knownApplications, emails, idx, pc, st, results,
                 nEmails, faults, cur, logs>>
  /\ UNCHANGED chanVars
  /\ UNCHANGED adapterVars
  /\ UNCHANGED handlerVars
  /\ UNCHANGED scriptVars
  /\ UNCHANGED fetchVars

\* the top of the for loop with the signal aborted: 'Operation cancelled' is
\* thrown outside the loop's try; its name is "Error", so the handler's catch
\* takes the branch that sets authError to `Processing failed: ...`
RunCancelled ==
  /\ runPc = "boundary"
  /\ runI < Len(runEmails)
  /\ ThrowIfAborted(aborted)
  /\ authError' = Some("Processing failed: Operation cancelled")
  /\ run' = [run EXCEPT !.observed = TRUE, !.ended = "threw"]
  /\ Finally
  /\ UNCHANGED <<runEmails, runI, runResults, progress, aborted>>
  /\ UNCHANGED <<store, knownApplications, emails, idx, pc, st, results,
                 nEmails, faults, cur, logs>>
  /\ UNCHANGED chanVars
  /\ UNCHANGED adapterVars
  /\ UNCHANGED handlerVars
  /\ UNCHANGED scriptVars
  /\ UNCHANGED fetchVars

\* the top of the for loop with i < emails.length: the next chunk is handed to
\* processEmailsChronologically
StartChunk ==
  /\ runPc = "boundary"
  /\ runI < Len(runEmails)
  /\ ~ThrowIfAborted(aborted)
  /\ LET batch == Slice(runEmails, runI, WEBLLM_BATCH_SIZE) IN
     /\ EnterLoop(batch)
     /\ run' = [run EXCEPT !.observed = @ \/ aborted,
                           !.chunks = Append(@, [batch |-> batch,
                                                 ended |-> "running"])]
  /\ progress' = [progress EXCEPT
                    !.currentBatch = (runI \div WEBLLM_BATCH_SIZE) + 1,
                    !.currentStatus = "AI processing batch"]
  /\ runPc' = "batch"
  /\ UNCHANGED <<runEmails, runI, runResults, authError, isProcessing,
                 abortControllerRef, aborted>>

\* the same with getKnownApplications rejecting with an error whose name is
\* not "AbortError" (ensureDB throwing, a DataError or UnknownError of the
\* request): processEmailsChronologically rejects before its loop, the catch
\* of the chunk records the error in progress.errors and the for loop goes on
ChunkFails ==
  /\ runPc = "boundary"
  /\ runI < Len(runEmails)
  /\ ~ThrowIfAborted(aborted)
  /\ pc = "idle"
  /\ faults < MaxFaults
  /\ faults' = faults + 1
  /\ LET batch == Slice(runEmails, runI, WEBLLM_BATCH_SIZE) IN
     /\ nEmails' = nEmails + Len(batch)
     /\ run' = [run EXCEPT !.observed = @ \/ aborted,
                           !.chunks = Append(@, [batch |-> batch,
                                                 ended |-> "failed"])]
  /\ progress' = [progress EXCEPT
                    !.currentBatch = (runI \div WEBLLM_BATCH_SIZE) + 1,
                    !.currentStatus = "AI processing batch",
                    !.errors = Append(@, "AI processing batch failed")]
  /\ runI' = NextIndex(runI)
  /\ UNCHANGED <<runPc, runEmails, runResults, authError, isProcessing,
                 abortControllerRef, aborted>>
  /\ UNCHANGED <<store, knownApplications, emails, idx, pc, st, results,
                 cur, logs>>
  /\ UNCHANGED chanVars
  /\ UNCHANGED adapterVars
  /\ UNCHANGED handlerVars
  /\ UNCHANGED scriptVars
  /\ UNCHANGED fetchVars

\* the same with getKnownApplications rejecting with req.error when the
\* transaction of the request was aborted: a DOMException named "AbortError".
\* The catch of the chunk rethrows it, and the handler's catch reports
\* 'Processing cancelled by user.'
ChunkAborts ==
  /\ runPc = "boundary"
  /\ runI < Len(runEmails)
  /\ ~ThrowIfAborted(aborted)
  /\ pc = "idle"
  /\ faults < MaxFaults
  /\ faults' = faults + 1
  /\ LET batch == Slice(runEmails, runI, WEBLLM_BATCH_SIZE) IN
     /\ nEmails' = nEmails + Len(batch)
     /\ run' = [run EXCEPT !.observed = @ \/ aborted,
                           !.chunks = Append(@, [batch |-> batch,
                                                 ended |-> "failed"]),
                           !.ended = "threw"]
  /\ progress' = [progress EXCEPT
                    !.currentBatch = (runI \div WEBLLM_BATCH_SIZE) + 1,
                    !.currentStatus = "Processing cancelled by user."]
  /\ Finally
  /\ UNCHANGED <<runEmails, runI, runResults, authError, aborted>>
  /\ UNCHANGED <<store, knownApplications, emails, idx, pc, st, results,
                 cur, logs>>
  /\ UNCHANGED chanVars
  /\ UNCHANGED adapterVars
  /\ UNCHANGED handlerVars
  /\ UNCHANGED scriptVars
  /\ UNCHANGED fetchVars

\* (mutation) the outcomes of a chunk dropped when the signal was aborted
\* while it ran
PushUnlessAborted(acc, batchResults) ==
  IF aborted THEN acc ELSE acc \o batchResults

\* results.push(...batchResults)
PushResults(acc, batchResults) == acc \o batchResults

\* processEmailsChronologically has returned batchResults: results.push,
\* progress updated, the 100 ms pause, i += webllmBatchSize
ChunkReturns ==
  /\ runPc = "batch"
  /\ pc = "idle"
  /\ runResults' = PushResults(runResults, results)
  /\ progress' = [progress EXCEPT !.processedEmails = Len(runResults'),
                                  !.results = runResults']
  /\ run' = [run EXCEPT !.chunks[Len(run.chunks)].ended = "ok"]
  /\ runI' = NextIndex(runI)
  /\ runPc' = "boundary"
  /\ UNCHANGED <<runEmails, authError, isProcessing, abortControllerRef,
                 aborted>>
  /\ UNCHANGED <<store, knownApplications, emails, idx, pc, st, results,
                 nEmails, faults, cur, logs>>
  /\ UNCHANGED chanVars
  /\ UNCHANGED adapterVars
  /\ UNCHANGED handlerVars
  /\ UNCHANGED scriptVars
  /\ UNCHANGED fetchVars

\* the for loop has ended: processEmailsWithAI returns results and the
\* handler reports `Completed! Processed ${results.length} emails.`
RunCompleted ==
  /\ runPc = "boundary"
  /\ runI >= Len(runEmails)
  /\ progress' = [progress EXCEPT !.currentStatus = "Completed!",
                                  !.processedEmails = Len(runResults)]
  /\ run' = [run EXCEPT !.ended = "returned"]
  /\ Finally
  /\ UNCHANGED <<runEmails, runI, runResults, authError, aborted>>
  /\ UNCHANGED <<store, knownApplications, emails, idx, pc, st, results,
                 nEmails, faults, cur, logs>>
  /\ UNCHANGED chanVars
  /\ UNCHANGED adapterVars
  /\ UNCHANGED handlerVars
  /\ UNCHANGED scriptVars
  /\ UNCHANGED fetchVars

\* the worker's error event while a chunk awaits a Registry save (no request
\* is pending then): worker.onerror rejects all pending requests, and nothing
\* else changes. An error event while a request is pending rejects that
\* request, which is one of the Responses of the node that awaits it.
WorkerErrorDuringRun ==
  /\ runPc = "batch"
  /\ pc \in {"finalizeResult", "updatePersistentState"}
  /\ ~run.fatal
  /\ faults < MaxFaults
  /\ faults' = faults + 1
  /\ run' = [run EXCEPT !.fatal = TRUE]
  /\ RejectAllPending("fatal")
  /\ UNCHANGED <<now, worker, isInitialized, inbox, outbox>>
  /\ UNCHANGED <<runPc, runEmails, runI, runResults, progress, authError,
                 isProcessing, abortControllerRef, aborted>>
  /\ UNCHANGED <<store, knownApplications, emails, idx, pc, st, results,
                 nEmails, cur, logs>>
  /\ UNCHANGED adapterVars
  /\ UNCHANGED handlerVars
  /\ UNCHANGED scriptVars
  /\ UNCHANGED fetchVars

\* the state once EmailProcessingApp.initialize() has completed: the worker is
\* initialized, the graph is compiled, the store is open and empty
Init ==
  /\ now = 0
  /\ worker = "live"
  /\ isInitialized = TRUE
  /\ reqs = << >>
  /\ pendingRequests = << >>
  /\ inbox = {}
  /\ outbox = {}
  /\ PipeIdle
  /\ RunIdle
  /\ statusCalls = << >>
  /\ fetch = NoFetch
  /\ emailProcessorRef = Initialized
  /\ handler = NoHandler
  /\ script = Loaded

Next ==
  \/ \E n \in 1..(MaxEmails - nEmails) :
       \E d \in [1..n -> Dates] :
         ProcessEmailsChronologically(
           [i \in 1..n |-> [id |-> nEmails + i, date |-> d[i]]])
  \/ ClassifyEmailNode
  \/ ExtractJobDataNode
  \/ CheckFirstInstanceNode
  \/ DetermineStatusNode
  \/ FinalizeResultNode
  \/ UpdatePersistentState
  \/ TerminateDuringRun

Spec == Init /\ [][Next]_vars

\* every await of the loop ends: a request is settled by its response, its
\* rejection or its timer, and a save by the end of its transaction, so the
\* node that awaits it goes on
\* (pc enables one of these steps at a time)
GraphStep ==
  \/ ClassifyEmailNode
  \/ ExtractJobDataNode
  \/ CheckFirstInstanceNode
  \/ DetermineStatusNode
  \/ FinalizeResultNode
  \/ UpdatePersistentState

FairSpec == Spec /\ WF_vars(GraphStep)

\* one run of the dashboard over the emails it fetched, from the same state
RunNext ==
  \/ \E n \in 1..MaxRunEmails :
       \E d \in [1..n -> Dates] :
         HandleRetrieveAndProcessEmails([i \in 1..n |-> [id |-> i, date |-> d[i]]])
  \/ CancelProcessing
  \/ RunCancelled
  \/ StartChunk
  \/ ChunkFails
  \/ ChunkAborts
  \/ ChunkReturns
  \/ RunCompleted
  \/ WorkerErrorDuringRun
  \/ ClassifyEmailNode
  \/ ExtractJobDataNode
  \/ CheckFirstInstanceNode
  \/ DetermineStatusNode
  \/ FinalizeResultNode
  \/ UpdatePersistentState

SpecRun == Init /\ [][RunNext]_vars

(***************************************************************************)
(* Dashboard: fetchEmailBatch, the retrieval of the email details in       *)
(* batches, from the handler's start to the return of the emails.          *)
(***************************************************************************)
\* GMAIL_RATE_LIMITS.BATCH_SIZE (10 in the code, MaxFetchBatch here)
BATCH_SIZE == MaxFetchBatch

\* how the fetch of one message can end: the email with its Date header, or
\* nothing, on a failure (a response that is not ok, a network error, a body that does not
\* parse)
FetchOutcomes == {None} \cup {Some(d) : d \in Dates}

\* (mutation) a failed batch that also drops the emails fetched before it
PushBatchResultsDropping(fetched, batch, r) ==
  IF \E k \in DOMAIN batch : r[k] = None THEN << >>
  ELSE fetched \o [k \in DOMAIN batch |-> [id |-> batch[k], date |-> r[k][1]]]

\* const batchResults = await Promise.all(batchPromises);
\* emails.push(...batchResults): Promise.all rejects when one fetch fails and
\* nothing of the batch is pushed
PushBatchResults(fetched, batch, r) ==
  IF \E k \in DOMAIN batch : r[k] = None THEN fetched
  ELSE fetched \o [k \in DOMAIN batch |-> [id |-> batch[k], date |-> r[k][1]]]

\* handleRetrieveAndProcessEmails up to the first batch boundary of
\* fetchEmailBatch(messageIds, accessToken, signal)
FetchEmailBatch(ids) ==
  /\ fetch.pc = "idle"
  /\ runPc = "idle"
  /\ isProcessing' = TRUE
  /\ authError' = None
  /\ abortControllerRef' = "live"
  /\ aborted' = FALSE
  /\ progress' = [IdleProgress EXCEPT
                    !.totalEmails = Len(ids),
                    !.totalBatches = Ceil(Len(ids), BATCH_SIZE),
                    !.currentStatus = "Fetching email details..."]
  /\ fetch' = [NoFetch EXCEPT !.pc = "boundary", !.messageIds = ids]
  /\ UNCHANGED <<runPc, runEmails, runI, runResults, run>>
  /\ UNCHANGED <<store, knownApplications, emails, idx, pc, st, results,
                 nEmails, faults, cur, logs>>
  /\ UNCHANGED chanVars
  /\ UNCHANGED adapterVars
  /\ UNCHANGED handlerVars
  /\ UNCHANGED scriptVars

\* the top of the for loop with the signal aborted: 'Operation cancelled' is
\* thrown outside the loop's try and reaches the handler's catch as an Error
FetchCancelled ==
  /\ fetch.pc = "boundary"
  /\ fetch.i < Len(fetch.messageIds)
  /\ ThrowIfAborted(aborted)
  /\ authError' = Some("Processing failed: Operation cancelled")
  /\ Finally
  /\ fetch' = [fetch EXCEPT !.pc = "done", !.ended = "threw"]
  /\ UNCHANGED <<runEmails, runI, runResults, progress, aborted, run>>
  /\ UNCHANGED <<store, knownApplications, emails, idx, pc, st, results,
                 nEmails, faults, cur, logs>>
  /\ UNCHANGED chanVars
  /\ UNCHANGED adapterVars
  /\ UNCHANGED handlerVars
  /\ UNCHANGED scriptVars

\* the top of the for loop otherwise: slice the batch, report it, start its
\* fetches
StartFetchBatch ==
  /\ fetch.pc = "boundary"
  /\ fetch.i < Len(fetch.messageIds)
  /\ ~ThrowIfAborted(aborted)
  /\ progress' = [progress EXCEPT
                    !.currentBatch = (fetch.i \div BATCH_SIZE) + 1,
                    !.currentStatus = "Fetching batch"]
  /\ fetch' = [fetch EXCEPT
                 !.pc = "fetching",
                 !.batches = Append(@, [batch |-> Slice(fetch.messageIds, fetch.i,
                                                        BATCH_SIZE),
                                        ended |-> "running",
                                        delayed |-> FALSE])]
  /\ UNCHANGED <<runPc, runEmails, runI, runResults, authError, isProcessing,
                 abortControllerRef, aborted, run>>
  /\ UNCHANGED <<store, knownApplications, emails, idx, pc, st, results,
                 nEmails, faults, cur, logs>>
  /\ UNCHANGED chanVars
  /\ UNCHANGED adapterVars
  /\ UNCHANGED handlerVars
  /\ UNCHANGED scriptVars

\* where the loop body goes after Promise.all settles: the delay is awaited
\* inside the try, after emails.push, so a batch that throws skips it
DelayUnlessFailed(failed) == IF failed THEN "boundary" ELSE "delay"

\* the fetches of the batch settle with outcomes r: all succeeded, the emails
\* are pushed and the delay timer is started; one failed with an error that
\* is not an AbortError, the catch appends one error to progress.errors and
\* the loop goes on at once.
FetchBatchSettles(r) ==
  /\ fetch.pc = "fetching"
  /\ LET n == Len(fetch.batches)
         batch == fetch.batches[n].batch
         failed == \E k \in DOMAIN batch : r[k] = None
     IN /\ DOMAIN r = DOMAIN batch
        /\ fetch' = [fetch EXCEPT
                       !.pc = DelayUnlessFailed(failed),
                       !.emails = PushBatchResults(@, batch, r),
                       !.i = @ + BATCH_SIZE,
                       !.batches[n].ended = IF failed THEN "failed" ELSE "ok"]
        /\ progress' = IF failed
                       THEN [progress EXCEPT !.errors = Append(@, "Batch failed")]
                       ELSE progress
  /\ UNCHANGED <<runPc, runEmails, runI, runResults, authError, isProcessing,
                 abortControllerRef, aborted, run>>
  /\ UNCHANGED <<store, knownApplications, emails, idx, pc, st, results,
                 nEmails, faults, cur, logs>>
  /\ UNCHANGED chanVars
  /\ UNCHANGED adapterVars
  /\ UNCHANGED handlerVars
  /\ UNCHANGED scriptVars

\* await new Promise(resolve => setTimeout(resolve, DELAY_BETWEEN_BATCHES)):
\* the timer fires, aborted signal or not, and the loop goes to its top
FetchDelayElapses ==
  /\ fetch.pc = "delay"
  /\ fetch' = [fetch EXCEPT !.pc = "boundary",
                            !.batches[Len(fetch.batches)].delayed = TRUE]
  /\ UNCHANGED runVars
  /\ UNCHANGED <<store, knownApplications, emails, idx, pc, st, results,
                 nEmails, faults, cur, logs>>
  /\ UNCHANGED chanVars
  /\ UNCHANGED adapterVars
  /\ UNCHANGED handlerVars
  /\ UNCHANGED scriptVars

\* the signal is aborted while a fetch of the batch is in flight: fetch
\* rejects with an AbortError, the catch of the batch rethrows it and the
\* handler's catch reports the cancellation
FetchBatchAborts ==
  /\ fetch.pc = "fetching"
  /\ aborted
  /\ progress' = [progress EXCEPT !.currentStatus = "Processing cancelled by user."]
  /\ Finally
  /\ fetch' = [fetch EXCEPT !.pc = "done", !.ended = "aborted",
                            !.batches[Len(fetch.batches)].ended = "aborted"]
  /\ UNCHANGED <<runEmails, runI, runResults, authError, aborted, run>>
  /\ UNCHANGED <<store, knownApplications, emails, idx, pc, st, results,
                 nEmails, faults, cur, logs>>
  /\ UNCHANGED chanVars
  /\ UNCHANGED adapterVars
  /\ UNCHANGED handlerVars
  /\ UNCHANGED scriptVars

\* the loop is over: return emails
FetchReturns ==
  /\ fetch.pc = "boundary"
  /\ fetch.i >= Len(fetch.messageIds)
  /\ fetch' = [fetch EXCEPT !.pc = "returned", !.ended = "returned"]
  /\ UNCHANGED runVars
  /\ UNCHANGED <<store, knownApplications, emails, idx, pc, st, results,
                 nEmails, faults, cur, logs>>
  /\ UNCHANGED chanVars
  /\ UNCHANGED adapterVars
  /\ UNCHANGED handlerVars
  /\ UNCHANGED scriptVars

NextFetch ==
  \/ \E n \in 1..MaxIds : FetchEmailBatch([k \in 1..n |-> k])
  \/ FetchCancelled
  \/ StartFetchBatch
  \/ \E n \in 1..BATCH_SIZE : \E r \in [1..n -> FetchOutcomes] : FetchBatchSettles(r)
  \/ FetchDelayElapses
  \/ FetchBatchAborts
  \/ FetchReturns
  \/ CancelProcessing

SpecFetch == Init /\ [][NextFetch]_vars

(***************************************************************************)
(* Dashboard: the component from its mount on. The effect that creates the *)
(* EmailProcessingApp and initializes it, and handleRetrieveAndProcess-    *)
(* Emails with every way out of it. fetchEmailList, fetchEmailBatch and    *)
(* processEmailsChronologically are awaited calls; what matters here is    *)
(* how many emails they return and the way they end.                       *)
(***************************************************************************)
\* const { EmailProcessingApp } = await import('../lib/email-processor');
\* emailProcessorRef.current = new EmailProcessingApp(): the ref is set
\* before initialize() is awaited
ImportResolves ==
  /\ emailProcessorRef.initialize = "import"
  /\ emailProcessorRef' = [emailProcessorRef EXCEPT !.current = TRUE,
                                                    !.initialize = "stateManager"]
  /\ UNCHANGED <<handler>>
  /\ UNCHANGED runVars
  /\ UNCHANGED <<store, knownApplications, emails, idx, pc, st, results,
                 nEmails, faults, cur, logs>>
  /\ UNCHANGED chanVars
  /\ UNCHANGED adapterVars
  /\ UNCHANGED fetchVars
  /\ UNCHANGED scriptVars

\* await this.stateManager.initialize() resolves: the database is open
StateManagerInitialized ==
  /\ emailProcessorRef.initialize = "stateManager"
  /\ emailProcessorRef' = [emailProcessorRef EXCEPT !.stateManager = TRUE,
                                                    !.initialize = "webllmWorker"]
  /\ UNCHANGED <<handler>>
  /\ UNCHANGED runVars
  /\ UNCHANGED <<store, knownApplications, emails, idx, pc, st, results,
                 nEmails, faults, cur, logs>>
  /\ UNCHANGED chanVars
  /\ UNCHANGED adapterVars
  /\ UNCHANGED fetchVars
  /\ UNCHANGED scriptVars

\* await this.webllmWorker.initialize() resolves;
\* this.processingGraph = this.createProcessingGraph()
WorkerInitialized ==
  /\ emailProcessorRef.initialize = "webllmWorker"
  /\ emailProcessorRef' = [emailProcessorRef EXCEPT !.processingGraph = TRUE,
                                                    !.initialize = "loadPersistedState"]
  /\ UNCHANGED <<handler>>
  /\ UNCHANGED runVars
  /\ UNCHANGED <<store, knownApplications, emails, idx, pc, st, results,
                 nEmails, faults, cur, logs>>
  /\ UNCHANGED chanVars
  /\ UNCHANGED adapterVars
  /\ UNCHANGED fetchVars
  /\ UNCHANGED scriptVars

\* await this.stateManager.loadPersistedState() resolves: initialize() has
\* completed
PersistedStateLoaded ==
  /\ emailProcessorRef.initialize = "loadPersistedState"
  /\ emailProcessorRef' = [emailProcessorRef EXCEPT !.initialize = "done"]
  /\ UNCHANGED <<handler>>
  /\ UNCHANGED runVars
  /\ UNCHANGED <<store, knownApplications, emails, idx, pc, st, results,
                 nEmails, faults, cur, logs>>
  /\ UNCHANGED chanVars
  /\ UNCHANGED adapterVars
  /\ UNCHANGED fetchVars
  /\ UNCHANGED scriptVars

\* the import or one of the awaited steps of initialize() rejects: the catch
\* of initialize rethrows, the catch of the effect sets authError. The ref
\* and what initialize() had assigned stay as they are.
InitializeFails ==
  /\ emailProcessorRef.initialize
       \in {"import", "stateManager", "webllmWorker", "loadPersistedState"}
  /\ emailProcessorRef' = [emailProcessorRef EXCEPT !.initialize = "failed"]
  /\ authError' = Some("Failed to initialize AI processing engine. Please refresh and try again.")
  /\ UNCHANGED <<handler>>
  /\ UNCHANGED <<runPc, runEmails, runI, runResults, progress, isProcessing,
                 abortControllerRef, aborted, run>>
  /\ UNCHANGED <<store, knownApplications, emails, idx, pc, st, results,
                 nEmails, faults, cur, logs>>
  /\ UNCHANGED chanVars
  /\ UNCHANGED adapterVars
  /\ UNCHANGED fetchVars
  /\ UNCHANGED scriptVars

\* (mutation) a button that is never disabled
ButtonAlwaysEnabled(processing) == FALSE

\* <button onClick={handleRetrieveAndProcessEmails} disabled={isProcessing}>
ButtonDisabled(processing) == processing

\* if (!emailProcessorRef.current): the test that lets a run go on
ProcessorSet(ref) == ref.current

\* the handler's record when its finally block has run
Finished(h, exit) ==
  [h EXCEPT !.pc = "idle", !.chunk = "none", !.active = @ - 1,
            !.exit = Append(@, exit)]

\* what the variables of the component are left unchanged by a step of the
\* handler that touches only its own locals
HandlerFrame ==
  /\ UNCHANGED <<runPc, runEmails, runI, runResults, run>>
  /\ UNCHANGED <<store, knownApplications, emails, idx, pc, st, results,
                 nEmails, faults, cur, logs>>
  /\ UNCHANGED chanVars
  /\ UNCHANGED adapterVars
  /\ UNCHANGED fetchVars
  /\ UNCHANGED scriptVars
  /\ UNCHANGED <<emailProcessorRef>>

\* a click on the button: handleRetrieveAndProcessEmails from its first line
\* to its first await. isProcessing, a fresh controller and the progress
\* reset come first; with no access token or no processor the handler sets
\* authError and returns through its finally block in the same turn.
HandleClick(accessToken) ==
  /\ ~ButtonDisabled(isProcessing)
  /\ handler.runs < MaxRuns
  /\ aborted' = FALSE
  /\ LET h == [NoHandler EXCEPT !.active = handler.active + 1,
                                !.runs = handler.runs + 1,
                                !.exit = handler.exit]
     IN IF ~accessToken
        THEN /\ authError' = Some("Authentication required. Please sign out and sign back in to grant email access.")
             /\ progress' = [IdleProgress EXCEPT !.currentStatus = "Starting..."]
             /\ isProcessing' = FALSE
             /\ abortControllerRef' = "null"
             /\ handler' = Finished(h, "missing token")
        ELSE IF ~ProcessorSet(emailProcessorRef)
        THEN /\ authError' = Some("AI processing engine not ready. Please refresh and try again.")
             /\ progress' = [IdleProgress EXCEPT !.currentStatus = "Starting..."]
             /\ isProcessing' = FALSE
             /\ abortControllerRef' = "null"
             /\ handler' = Finished(h, "processor not ready")
        ELSE /\ authError' = None
             /\ progress' = [IdleProgress EXCEPT
                               !.currentStatus = "Fetching email list..."]
             /\ isProcessing' = TRUE
             /\ abortControllerRef' = "live"
             /\ handler' = [h EXCEPT !.pc = "fetchEmailList",
                                     !.startedAt = emailProcessorRef.initialize]
  /\ HandlerFrame

\* await fetchEmailList(...) resolves with n ids. With none the handler
\* reports it and returns; otherwise fetchEmailBatch is called.
EmailListReturns(n) ==
  /\ handler.pc = "fetchEmailList"
  /\ IF n = 0
     THEN /\ progress' = [progress EXCEPT
                            !.currentStatus = "No emails found for the specified date range."]
          /\ isProcessing' = FALSE
          /\ abortControllerRef' = "null"
          /\ handler' = Finished(handler, "no emails found")
     ELSE /\ progress' = [progress EXCEPT
                            !.totalEmails = n,
                            !.totalBatches = Ceil(n, BATCH_SIZE),
                            !.currentStatus = "Fetching email details..."]
          /\ handler' = [handler EXCEPT !.pc = "fetchEmailBatch", !.ids = n]
          /\ UNCHANGED <<isProcessing, abortControllerRef>>
  /\ UNCHANGED <<authError, aborted>>
  /\ HandlerFrame

\* an awaited call of the retrieval rejects. fetchEmailList: a response that
\* is not ok or a network error; with the signal aborted, the AbortError of
\* fetch. fetchEmailBatch: with the signal aborted, 'Operation cancelled' at
\* a batch boundary or the AbortError of a fetch in flight. The handler's
\* catch tells the AbortError from the rest, then the finally block runs.
RetrievalThrows(error) ==
  /\ handler.pc \in {"fetchEmailList", "fetchEmailBatch"}
  /\ error = "Gmail API error" => handler.pc = "fetchEmailList"
  /\ error \in {"AbortError", "Operation cancelled"} => aborted
  /\ error = "Operation cancelled" => handler.pc = "fetchEmailBatch"
  /\ IF error = "AbortError"
     THEN /\ progress' = [progress EXCEPT
                            !.currentStatus = "Processing cancelled by user."]
          /\ UNCHANGED authError
     ELSE /\ authError' = Some("Processing failed")
          /\ UNCHANGED progress
  /\ isProcessing' = FALSE
  /\ abortControllerRef' = "null"
  /\ handler' = Finished(handler, IF error = "Gmail API error" THEN "error"
                                  ELSE "cancelled")
  /\ UNCHANGED aborted
  /\ HandlerFrame

\* await fetchEmailBatch(...) resolves with the m emails of the batches that
\* did not fail; processEmailsWithAI is called and reaches the top of its
\* loop (its own test of the ref cannot fail: the ref is never reset)
EmailBatchReturns(m) ==
  /\ handler.pc = "fetchEmailBatch"
  /\ m <= handler.ids
  /\ handler' = [handler EXCEPT !.pc = "processEmailsWithAI", !.emails = m,
                                !.i = 0, !.results = 0]
  /\ progress' = [progress EXCEPT
                    !.totalBatches = Ceil(m, WEBLLM_BATCH_SIZE),
                    !.currentBatch = 0,
                    !.currentStatus = "Processing emails with AI..."]
  /\ UNCHANGED <<authError, isProcessing, abortControllerRef, aborted>>
  /\ HandlerFrame

\* how a call of processEmailsChronologically ends on the processor as it
\* is: without a database getKnownApplications throws and the call rejects;
\* without a graph `this.processingGraph.invoke` throws inside the try of
\* each email, which gets the "error" outcome; otherwise the emails go
\* through the graph
ProcessEmailsChronologicallyOn(ref) ==
  IF ~ref.stateManager THEN "rejects"
  ELSE IF ~ref.processingGraph THEN "error outcomes"
  ELSE "processed"

\* the top of the loop of processEmailsWithAI with the signal aborted
AIPhaseCancelled ==
  /\ handler.pc = "processEmailsWithAI"
  /\ handler.i < handler.emails
  /\ ThrowIfAborted(aborted)
  /\ authError' = Some("Processing failed")
  /\ isProcessing' = FALSE
  /\ abortControllerRef' = "null"
  /\ handler' = Finished(handler, "cancelled")
  /\ UNCHANGED <<progress, aborted>>
  /\ HandlerFrame

\* the top of the loop otherwise: the next chunk is handed to
\* emailProcessorRef.current.processEmailsChronologically
ChunkHandedOver ==
  /\ handler.pc = "processEmailsWithAI"
  /\ handler.i < handler.emails
  /\ ~ThrowIfAborted(aborted)
  /\ handler' = [handler EXCEPT
                   !.pc = "processEmailsChronologically",
                   !.chunk = ProcessEmailsChronologicallyOn(emailProcessorRef),
                   !.handed = @ \cup {emailProcessorRef.initialize}]
  /\ progress' = [progress EXCEPT
                    !.currentBatch = (handler.i \div WEBLLM_BATCH_SIZE) + 1,
                    !.currentStatus = "AI processing batch"]
  /\ UNCHANGED <<authError, isProcessing, abortControllerRef, aborted>>
  /\ HandlerFrame

\* the call settles: its results are pushed, or its error is recorded; the
\* loop goes on
ChunkSettles ==
  /\ handler.pc = "processEmailsChronologically"
  /\ LET size == IF handler.i + WEBLLM_BATCH_SIZE < handler.emails
                 THEN WEBLLM_BATCH_SIZE ELSE handler.emails - handler.i
     IN IF handler.chunk = "rejects"
        THEN /\ progress' = [progress EXCEPT
                               !.errors = Append(@, "AI processing batch failed")]
             /\ handler' = [handler EXCEPT !.pc = "processEmailsWithAI",
                                           !.chunk = "none",
                                           !.i = NextIndex(@)]
        ELSE /\ progress' = [progress EXCEPT
                               !.processedEmails = handler.results + size]
             /\ handler' = [handler EXCEPT !.pc = "processEmailsWithAI",
                                           !.chunk = "none",
                                           !.i = NextIndex(@),
                                           !.results = @ + size]
  /\ UNCHANGED <<authError, isProcessing, abortControllerRef, aborted>>
  /\ HandlerFrame

\* the loop is over: processEmailsWithAI returns, the handler reports the
\* completion and its finally block runs
HandlerCompleted ==
  /\ handler.pc = "processEmailsWithAI"
  /\ handler.i >= handler.emails
  /\ progress' = [progress EXCEPT !.currentStatus = "Completed!",
                                  !.processedEmails = handler.results]
  /\ isProcessing' = FALSE
  /\ abortControllerRef' = "null"
  /\ handler' = Finished(handler, "completed")
  /\ UNCHANGED <<authError, aborted>>
  /\ HandlerFrame

\* the component as it mounts: the effect has started the import
InitHandler ==
  /\ now = 0
  /\ worker = "null"
  /\ isInitialized = FALSE
  /\ reqs = << >>
  /\ pendingRequests = << >>
  /\ inbox = {}
  /\ outbox = {}
  /\ PipeIdle
  /\ RunIdle
  /\ statusCalls = << >>
  /\ fetch = NoFetch
  /\ emailProcessorRef = Mounted
  /\ handler = NoHandler
  /\ script = Loaded

HandlerStep ==
  \/ \E n \in 0..MaxIds : EmailListReturns(n)
  \/ \E error \in {"Gmail API error", "AbortError", "Operation cancelled"} :
       RetrievalThrows(error)
  \/ \E m \in 0..MaxIds : EmailBatchReturns(m)
  \/ AIPhaseCancelled
  \/ ChunkHandedOver
  \/ ChunkSettles
  \/ HandlerCompleted

NextHandler ==
  \/ ImportResolves
  \/ StateManagerInitialized
  \/ WorkerInitialized
  \/ PersistedStateLoaded
  \/ InitializeFails
  \/ \E accessToken \in BOOLEAN : HandleClick(accessToken)
  \/ CancelProcessing
  \/ HandlerStep

SpecHandler == InitHandler /\ [][NextHandler]_vars

\* every awaited call of the handler settles: the fetches of the Gmail API
\* end, and so does processEmailsChronologically, whose requests to the
\* worker are timed
FairHandler == SpecHandler /\ WF_vars(HandlerStep)

(***************************************************************************)
(* The worker script: self.onmessage with initializeEngine and             *)
(* processPrompt. A message is [type, id]; what the script posts is        *)
(* {id, result}, {id, error} or, while the model loads, {id: 'progress'}.  *)
(***************************************************************************)
\* WorkerMessage.type: the script has a case for each but "analyze"
MessageTypes ==
  {"initialize", "classify", "extract", "status", "terminate", "analyze"}

\* the ids of the messages
MessageIds == {"a", "b"}

\* the content of an answer of the engine, given by its words; the empty
\* one is what `|| ''` makes of an answer without content
Contents == {<< >>, <<"YES">>, <<"{}">>, <<"not", "json">>, <<"withdrawn">>}

\* what the engine does during a request: engine.reload (for initialize) or
\* engine.chat.completions.create resolves, the latter with a content, or
\* rejects
EngineOutcomes ==
  {[ok |-> TRUE, content |-> c] : c \in Contents}
    \cup {[ok |-> FALSE, content |-> << >>]}

\* the validStatuses of processPrompt, in the order of the array
WorkerStatusList ==
  <<"applied", "under_review", "interview_scheduled", "interview_completed",
    "offer_received", "offer_accepted", "rejected", "withdraw", "pending">>

\* status.includes(s), for a content given by its words: s is one of the
\* words or a part of one ("withdraw" is a part of "withdrawn")
Includes(content, s) ==
  \E w \in DOMAIN content :
    content[w] = s \/ (s = "withdraw" /\ content[w] = "withdrawn")

\* validStatuses.find(s => status.includes(s)) || 'pending'
FoundStatus(content) ==
  IF \E k \in DOMAIN WorkerStatusList : Includes(content, WorkerStatusList[k])
  THEN LET k == CHOOSE k \in DOMAIN WorkerStatusList :
                  /\ Includes(content, WorkerStatusList[k])
                  /\ \A j \in 1..(k - 1) : ~Includes(content, WorkerStatusList[j])
       IN WorkerStatusList[k]
  ELSE "pending"

\* a value returned and an error thrown
Returned(value) == [threw |-> FALSE, value |-> value]
Thrown(message) == [threw |-> TRUE, value |-> message]

\* processPrompt(prompt, type), with what the engine does
ProcessPrompt(type, ready, outcome) ==
  IF ~ready THEN Thrown("WebLLM engine not initialized")
  ELSE IF ~outcome.ok THEN Thrown("engine")
  ELSE CASE type = "classify" ->
              Returned(IF Includes(outcome.content, "YES") THEN "true" ELSE "false")
         [] type = "extract" ->
              IF outcome.content = <<"{}">> THEN Returned("parsed")
              ELSE Thrown("SyntaxError")
         [] type = "status" -> Returned(FoundStatus(outcome.content))
         [] OTHER -> Returned("content")

\* the switch of self.onmessage for the types that answer
Handle(type, ready, outcome) ==
  CASE type = "initialize" ->
         IF outcome.ok THEN Returned("success") ELSE Thrown("engine")
    [] type \in {"classify", "extract", "status"} ->
         ProcessPrompt(type, ready, outcome)
    [] OTHER -> Thrown("Unknown message type")

\* self.postMessage: k is the position of the request being handled
PostedMessage(k, id, field, value) ==
  [of |-> k, id |-> id,
   result |-> IF field = "result" THEN Some(value) ELSE None,
   error |-> IF field = "error" THEN Some(value) ELSE None]

\* (mutation) a catch that logs the error and posts nothing
CatchSilently(k, id, message) == << >>

\* catch (error) { self.postMessage({id, error: error.message || ...}) }
Catch(k, id, message) == <<PostedMessage(k, id, "error", message)>>

\* self.onmessage for one message, with what the engine does during it
OnMessage(type, id, outcome) ==
  /\ ~script.closed
  /\ Len(script.received) < MaxMsgs
  /\ type \in {"terminate", "analyze"} => ~outcome.ok
  /\ type = "initialize" => outcome.content = << >>
  /\ LET k == Len(script.received) + 1
         got == Append(script.received, [type |-> type, id |-> id])
         h == Handle(type, script.ready, outcome)
         progressed == IF type = "initialize" /\ outcome.ok
                       THEN <<PostedMessage(k, "progress", "progress", "report")>>
                       ELSE << >>
     IN IF type = "terminate"
        THEN script' = [script EXCEPT !.received = got, !.ready = FALSE,
                                      !.closed = TRUE]
        ELSE script' = [script EXCEPT
               !.received = got,
               !.ready = @ \/ (type = "initialize" /\ ~h.threw),
               !.posted = @ \o progressed
                            \o (IF h.threw THEN Catch(k, id, h.value)
                                ELSE <<PostedMessage(k, id, "result", h.value)>>)]
  /\ UNCHANGED chanVars
  /\ UNCHANGED <<store, knownApplications, emails, idx, pc, st, results,
                 nEmails, faults, cur, logs>>
  /\ UNCHANGED runVars
  /\ UNCHANGED adapterVars
  /\ UNCHANGED fetchVars
  /\ UNCHANGED handlerVars

NextScript ==
  \E type \in MessageTypes : \E id \in MessageIds :
    \E outcome \in EngineOutcomes : OnMessage(type, id, outcome)

SpecScript == Init /\ [][NextScript]_vars

(***************************************************************************)
(* WebLLMWorker.determineStatus called on its own.                         *)
(***************************************************************************)
\* how the request of a determineStatus call can settle: resolved with any
\* status the worker's processPrompt returns, or rejected (worker error,
\* timeout, worker failure)
StatusResponses ==
  {[ok |-> TRUE, result |-> a] : a \in WorkerStatuses}
    \cup {[ok |-> FALSE, result |-> ""]}

\* determineStatus(emailContent, emailSubject): throws when the worker is not
\* initialized, else returns what DetermineStatus makes of the settled request
DetermineStatusCall ==
  /\ Len(statusCalls) < MaxCalls
  /\ IF ~isInitialized
     THEN statusCalls' = Append(statusCalls,
                                [threw |-> TRUE, resp |-> None, returned |-> None])
     ELSE \E resp \in StatusResponses :
            statusCalls' = Append(statusCalls,
                                  [threw |-> FALSE, resp |-> Some(resp),
                                   returned |-> Some(DetermineStatus(resp))])
  /\ UNCHANGED chanVars
  /\ UNCHANGED <<store, knownApplications, emails, idx, pc, st, results,
                 nEmails, faults, cur, logs>>
  /\ UNCHANGED runVars
  /\ UNCHANGED fetchVars
  /\ UNCHANGED handlerVars
  /\ UNCHANGED scriptVars

NextAdapter ==
  \/ DetermineStatusCall
  \/ Terminate

SpecAdapter == Init /\ [][NextAdapter]_vars

(***************************************************************************)
(* Claims about the channel.                                               *)
(***************************************************************************)
\* C1: every promise made by postMessage is settled exactly once, whatever the
\* interleaving of responses, timers, worker errors and terminate(): its
\* resolve or reject function is never called twice, and no request stays
\* unsettled for ever. Dispatched and settled requests stay so, and a behaviour
\* dispatches at most MaxReq requests, so "every dispatched request is
\* eventually settled" is: from some point on, all of them are.
C1_SettledExactlyOnce ==
  /\ [](\A r \in DOMAIN reqs : reqs[r].settled <= 1)
  /\ <>[](\A r \in DOMAIN reqs : reqs[r].settled = 1)

\* a request answered by the worker, another one ended by its timer, and a
\* third rejected by terminate() or a worker error
C1_Witness ==
  \E r1, r2, r3 \in DOMAIN reqs :
    /\ reqs[r1].settled = 1 /\ reqs[r1].outcome = "result"
    /\ reqs[r2].settled = 1 /\ reqs[r2].outcome = "timeout"
    /\ reqs[r3].settled = 1 /\ reqs[r3].outcome \in {"fatal", "terminated"}

\* C2: the ids of the requests still pending are pairwise different, so no
\* dispatch has overwritten the pending entry of another request.
C2_FreshIds ==
  \A r1, r2 \in DOMAIN reqs :
    (r1 # r2 /\ reqs[r1].settled = 0 /\ reqs[r2].settled = 0)
      => reqs[r1].id # reqs[r2].id

\* C3: a caller whose promise resolved with a result received the worker's
\* answer to its own request.
C3_OwnResponse ==
  \A r \in DOMAIN reqs : reqs[r].outcome = "result" => reqs[r].value = r

\* the step is handleWorkerMessage taking response m off the worker's posted
\* messages
Handled(m) == m \in outbox /\ outbox' = outbox \ {m} /\ worker' = worker

\* C20: a timer that fires removes the request's pending entry and rejects the
\* request with a timeout; the response to a request that timed out is
\* discarded and settles nothing; the response to a request whose deadline has
\* not passed cancels that request's timer.
C20_TimeoutAndLateResponse ==
  [][ /\ \A r \in DOMAIN reqs :
           (reqs[r].outcome = "none" /\ reqs'[r].outcome = "timeout")
             => /\ ~reqs'[r].timer
                /\ reqs[r].id \notin DOMAIN pendingRequests'
      /\ \A m \in outbox :
           (Handled(m) /\ reqs[m.of].outcome = "timeout") => reqs' = reqs
      /\ \A m \in outbox :
           (Handled(m) /\ reqs[m.of].timer) => ~reqs'[m.of].timer ]_vars

\* C21: the worker's error event rejects every request that is unsettled at
\* that moment with the worker error and leaves pendingRequests empty; the
\* timer of a request so rejected is cleared and never settles it again.
C21_FatalRejectsAllPending ==
  /\ [][ (\E r \in DOMAIN reqs : reqs[r].settled = 0 /\ reqs'[r].outcome = "fatal")
           => /\ pendingRequests' = << >>
              /\ \A r \in DOMAIN reqs :
                   reqs[r].settled = 0
                     => reqs'[r].outcome = "fatal" /\ ~reqs'[r].timer ]_vars
  /\ [](\A r \in DOMAIN reqs :
          reqs[r].outcome = "fatal" => ~reqs[r].timer /\ reqs[r].settled = 1)

\* C30: a worker message whose id is not in pendingRequests (a late response,
\* or a second response to a request already answered) is discarded: handling
\* it leaves pendingRequests and every promise as they were. (The handler has
\* no statement that can throw on this path: in the model the step exists and
\* changes nothing but the queue of posted messages.)
C30_UnknownIdDiscarded ==
  [][ \A m \in outbox :
        (Handled(m) /\ m.id \notin DOMAIN pendingRequests)
          => /\ pendingRequests' = pendingRequests
             /\ reqs' = reqs
             /\ isInitialized' = isInitialized ]_vars

\* the late response to a request that timed out has been handled (the worker
\* was never terminated, the request is no longer in its queue and its
\* response is no longer waiting) and it settled no request
C30_Witness ==
  \E r \in DOMAIN reqs :
    /\ worker = "live"
    /\ reqs[r].outcome = "timeout" /\ reqs[r].settled = 1
    /\ r \notin inbox
    /\ \A m \in outbox : m.of # r
    /\ \A r2 \in DOMAIN reqs :
         reqs[r2].outcome \in {"result", "error"} => reqs[r2].value # r

\* C40: terminate() rejects every request that is unsettled at that moment
\* and leaves pendingRequests empty; afterwards no call adds an entry to
\* pendingRequests or posts a message to the worker.
C40_TerminateRejectsAllPending ==
  /\ [][ (worker = "live" /\ worker' = "null")
           => /\ pendingRequests' = << >>
              /\ \A r \in DOMAIN reqs :
                   reqs[r].settled = 0 => reqs'[r].outcome = "terminated" ]_vars
  /\ [][ worker' = "null"
           => /\ pendingRequests' = << >>
              /\ inbox' = {}
              /\ \A r \in DOMAIN reqs' \ DOMAIN reqs :
                   reqs'[r].outcome \notin {"none", "result"} ]_vars

(***************************************************************************)
(* Claims about the per-email pipeline and the Registry.                   *)
(***************************************************************************)
\* email i reached CheckFirstInstance with job data that names a company
HasCompany(i) ==
  logs[i].jobData # None /\ Truthy(logs[i].jobData[1].company_name)

KeyOf(i) == AppKey(logs[i].jobData[1])

\* emails i and j are two consecutive emails of one application: the same
\* company and title, no entry for their key before i, and no email between
\* them whose job data gives that key
SameApplicationTwice(i, j) ==
  /\ i < j
  /\ HasCompany(i) /\ HasCompany(j)
  /\ logs[i].jobData = logs[j].jobData
  /\ KeyOf(i) \notin DOMAIN logs[i].before
  /\ \A k \in (i + 1)..(j - 1) :
       logs[k].jobData = None \/ KeyOf(k) # KeyOf(i)

\* C4: of two emails with the same company and title, processed in order from
\* a Registry without their key, the first outcome has is_first_instance = true
\* and leaves email_count = 1, the second has is_first_instance = false and
\* leaves email_count = 2.
C4_FirstThenSecond ==
  \A i, j \in DOMAIN logs :
    SameApplicationTwice(i, j) =>
      /\ logs[i].outcome.isFirstInstance
      /\ logs[i].after[KeyOf(i)].email_count = 1
      /\ ~logs[j].outcome.isFirstInstance
      /\ KeyOf(j) \in DOMAIN logs[j].after
      /\ logs[j].after[KeyOf(j)].email_count = 2

\* the status the adapter determined for email i
Determined(i, status) ==
  /\ logs[i].status \in {"ok", "failed"}
  /\ logs[i].finalState.applicationStatus = Some(status)

NormalizedName(entry) ==
  <<ToLowerCase(TemplateStr(entry.company_name)),
    ToLowerCase(OrUnknown(entry.job_title))>>

\* C6: the application key is case-normalized: job records whose company and
\* title differ only in letter case are filed under one Registry entry.
C6_CaseNormalizedKey ==
  \A k1, k2 \in DOMAIN knownApplications :
    NormalizedName(knownApplications[k1]) = NormalizedName(knownApplications[k2])
      => k1 = k2

\* C7: an email whose extraction gave null, or job data without company_name,
\* has is_first_instance = false and leaves the Registry as it was.
C7_NoMutationWithoutCompany ==
  \A i \in DOMAIN logs :
    (logs[i].extract # "none" /\ ~HasCompany(i))
      => /\ ~logs[i].outcome.isFirstInstance
         /\ logs[i].after = logs[i].before

\* C8: an email whose classify call failed (rejected request, or the adapter
\* throwing when the worker is not initialized) goes to Finalize with
\* isJobRelated = false and a non-empty error list, with no extract or status
\* request.
C8_ClassifyFailureRecorded ==
  \A i \in DOMAIN logs :
    logs[i].classify \in {"failed", "throw"}
      => /\ ~logs[i].outcome.isJobRelated
         /\ logs[i].outcome.processingErrors # << >>
         /\ logs[i].calls \cap {"extract", "status"} = {}

\* status_history and current_status of key k at the CheckFirstInstance stage
\* of email i: those it had before, or those of a new entry
HistoryAtCheck(i, k) ==
  IF k \in DOMAIN logs[i].before
  THEN <<logs[i].before[k].status_history, logs[i].before[k].current_status>>
  ELSE <<<<"applied">>, None>>

\* C9: when the status request of an email fails, no entry's status_history
\* grows and no entry's current_status changes because of that email.
C9_NoAppendOnStatusFailure ==
  \A i \in DOMAIN logs :
    logs[i].status = "failed"
      => \A k \in DOMAIN logs[i].after :
           <<logs[i].after[k].status_history, logs[i].after[k].current_status>>
             = HistoryAtCheck(i, k)

\* C10: whenever the status determination of an email fails, by a
\* rejected request or by the adapter throwing, the outcome reports "pending".
C10_PendingOnAnyStatusFailure ==
  \A i \in DOMAIN logs :
    logs[i].status \in {"failed", "throw"}
      => logs[i].outcome.applicationStatus = "pending"

\* C14: whatever classify, extract and status failures occur, every email
\* handed to the pipeline ends with exactly one outcome: no two outcomes for
\* one email, a failed extraction still goes on to the status stage, and
\* from some point on every email handed over has its outcome (a behaviour
\* hands over at most MaxEmails emails).
C14_EveryEmailOneOutcome ==
  /\ [](\A k1, k2 \in DOMAIN logs :
          logs[k1].email.id = logs[k2].email.id => k1 = k2)
  /\ [](\A k \in DOMAIN logs :
          logs[k].extract \in {"failed", "throw"} => logs[k].status # "none")
  /\ <>[](Len(logs) = nEmails)

\* an email whose classify call succeeded and whose extract and status calls
\* both failed, with its outcome
C14_Witness ==
  \E k \in DOMAIN logs :
    /\ logs[k].extract \in {"failed", "throw"}
    /\ logs[k].status \in {"failed", "throw"}
    /\ ~logs[k].threw
    /\ Len(logs) = nEmails

\* C17: within one call of processEmailsChronologically the emails are
\* processed in the order they were submitted (ids grow in submission order),
\* without re-ordering by date: the outcomes come in submission order.
C17_SubmissionOrderInChunk ==
  \A k \in 1..(Len(results) - 1) : results[k].emailId < results[k + 1].emailId

\* C19: persistence round trip. Right after finalizeResult has saved the
\* Registry m, loading the store returns m; and saving what a load returns
\* leaves the store as it was.
C19_PersistenceRoundTrip ==
  /\ pc = "updatePersistentState" => GetKnownApplications(store) = knownApplications
  /\ UpdateKnownApplications(store, GetKnownApplications(store), now) = store

\* C22: whenever determineStatus returns, it returns one of the nine statuses
\* of validStatuses: the worker's answer when it is one of them, and "pending"
\* for an answer outside them and for a rejected request.
C22_StatusInEnumeration ==
  /\ Cardinality(ValidStatuses) = 9
  /\ \A c \in DOMAIN statusCalls :
       ~statusCalls[c].threw
         => LET resp == statusCalls[c].resp[1]
                returned == statusCalls[c].returned[1]
            IN /\ returned \in ValidStatuses
               /\ (~resp.ok => returned = "pending")
               /\ (resp.ok /\ resp.result \notin ValidStatuses => returned = "pending")
               /\ (resp.ok /\ resp.result \in ValidStatuses => returned = resp.result)

\* one call answered "withdraw", which validStatuses does not include, and
\* another whose request was rejected
C22_Witness ==
  \E c, d \in DOMAIN statusCalls :
    /\ ~statusCalls[c].threw /\ statusCalls[c].resp[1].ok
    /\ statusCalls[c].resp[1].result \notin ValidStatuses
    /\ statusCalls[c].returned = Some("pending")
    /\ ~statusCalls[d].threw /\ ~statusCalls[d].resp[1].ok
    /\ statusCalls[d].returned = Some("pending")

\* the emails up to the i-th whose job data names a company and yields key k
MatchedUpTo(i, k) == {j \in 1..i : HasCompany(j) /\ KeyOf(j) = k}

\* C23: once an email's outcome is pushed, every entry of the Registry has an
\* email_count of at least 1 that equals the number of emails processed so
\* far whose job data yields its key, whatever chunks and reloads lie between.
C23_CountEqualsMatches ==
  \A i \in DOMAIN logs :
    \A k \in DOMAIN logs[i].after :
      /\ logs[i].after[k].email_count >= 1
      /\ logs[i].after[k].email_count = Cardinality(MatchedUpTo(i, k))

IsPrefix(s, t) == Len(s) <= Len(t) /\ SubSeq(t, 1, Len(s)) = s

\* C24: status_history is append-only: the history an entry had after an
\* earlier email is a prefix of the history it has after any later email,
\* whatever saves and reloads of the Registry lie between the two.
C24_HistoryAppendOnly ==
  \A i, j \in DOMAIN logs :
    i < j =>
      \A k \in DOMAIN logs[i].after \cap DOMAIN logs[j].after :
        IsPrefix(logs[i].after[k].status_history, logs[j].after[k].status_history)

\* C25: per-email flush. Between two emails (the outcome of one is pushed, the
\* next has not reached checkFirstInstance) and after the last one, the store
\* holds every entry of the Registry in memory with the same email_count and
\* status_history.
C25_FlushedWhenDone ==
  (Len(logs) > 0 /\ pc \in {"idle", "classifyEmail", "extractJobData"})
    => \A k \in DOMAIN knownApplications :
         /\ k \in DOMAIN store
         /\ store[k].email_count = knownApplications[k].email_count
         /\ store[k].status_history = knownApplications[k].status_history

\* C28: an email whose extraction failed (rejected request, or the adapter
\* throwing) or gave null has jobData null in its outcome and an error in its
\* error list, and its pipeline has gone on through checkFirstInstance and
\* determineStatus to finalizeResult.
C28_ExtractFailureRecorded ==
  \A i \in DOMAIN logs :
    (logs[i].extract # "none" /\ logs[i].jobData = None /\ ~logs[i].threw)
      => /\ logs[i].outcome.jobData = None
         /\ logs[i].outcome.processingErrors # << >>
         /\ logs[i].finalState.isFirstInstance # None
         /\ logs[i].status # "none"

\* C29: when the status request of an email succeeds and the key of its job
\* data is in the Registry at that stage (it was there before, or
\* checkFirstInstance has just created it), the status is pushed onto the
\* entry's status_history, becomes its current_status, and the entry carries
\* a last_updated stamp; when the key is absent the Registry is left as it
\* was.
C29_AppendStatus ==
  \A i \in DOMAIN logs :
    logs[i].status = "ok"
      => IF logs[i].jobData # None
            /\ (KeyOf(i) \in DOMAIN logs[i].before \/ HasCompany(i))
         THEN LET k == KeyOf(i)
                  s == logs[i].finalState.applicationStatus[1]
              IN /\ logs[i].after[k].status_history
                      = Append(HistoryAtCheck(i, k)[1], s)
                 /\ logs[i].after[k].current_status = Some(s)
                 /\ logs[i].after[k].last_updated # None
         ELSE logs[i].after = logs[i].before

\* the nodes a graph run may enter next from node n with graph state s
\* (after finalizeResult: the loop's second save, or, when the save threw,
\* the next email or the end of the call)
NextStages(n, s) ==
  IF n = "classifyEmail"
  THEN IF s.isJobRelated = Some(TRUE) THEN {"extractJobData"} ELSE {"finalizeResult"}
  ELSE IF n = "extractJobData" THEN {"checkFirstInstance"}
  ELSE IF n = "checkFirstInstance" THEN {"determineStatus"}
  ELSE IF n = "determineStatus" THEN {"finalizeResult"}
  ELSE IF n = "finalizeResult" THEN {"updatePersistentState", "classifyEmail", "idle"}
  ELSE {"classifyEmail", "idle"}

\* C31: an email classified as not job-related goes from classifyEmail
\* straight to finalizeResult, with no extract or status request and the
\* Registry as it was; a job-related email runs classifyEmail, extractJobData,
\* checkFirstInstance, determineStatus and finalizeResult once each, in that
\* order (every step of a node leaves the node for its one successor).
C31_StageOrder ==
  /\ [][ (pc # "idle" /\ <<pc, st, cur, knownApplications, idx>>'
                           # <<pc, st, cur, knownApplications, idx>>)
           => /\ pc' \in NextStages(pc, st')
              /\ (pc = "finalizeResult" /\ pc' = "classifyEmail") => idx' = idx + 1 ]_vars
  /\ [](\A i \in DOMAIN logs :
          IF logs[i].finalState.isJobRelated = Some(TRUE)
          THEN /\ logs[i].extract # "none"
               /\ logs[i].finalState.isFirstInstance # None
               /\ logs[i].status # "none"
          ELSE /\ logs[i].calls \cap {"extract", "status"} = {}
               /\ logs[i].extract = "none" /\ logs[i].status = "none"
               /\ logs[i].after = logs[i].before)

\* one email classified as not job-related by the worker and one job-related
\* email that went through every stage
C31_Witness ==
  \E i, j \in DOMAIN logs :
    /\ logs[i].classify = "ok" /\ logs[i].finalState.isJobRelated = Some(FALSE)
    /\ ~logs[i].threw
    /\ logs[j].finalState.isJobRelated = Some(TRUE)
    /\ logs[j].extract = "ok" /\ logs[j].status = "ok" /\ ~logs[j].threw

\* C32: when the job data of an email yields a key that is in the Registry,
\* the checkFirstInstance step changes nothing but that entry's email_count,
\* which grows by exactly 1; and an entry's first_seen is, after every email,
\* the date of the email that created it.
C32_MatchOnlyIncrements ==
  /\ [][ (/\ pc = "checkFirstInstance" /\ pc' = "determineStatus"
          /\ st.jobData # None /\ Truthy(st.jobData[1].company_name)
          /\ AppKey(st.jobData[1]) \in DOMAIN knownApplications)
           => /\ knownApplications'
                   = [knownApplications EXCEPT
                        ![AppKey(st.jobData[1])].email_count = @ + 1]
              /\ st'.isFirstInstance = Some(FALSE) ]_vars
  /\ [](\A i \in DOMAIN logs : \A k \in DOMAIN logs[i].after :
          logs[i].after[k].first_seen
            = IF k \in DOMAIN logs[i].before THEN logs[i].before[k].first_seen
              ELSE logs[i].email.date)

\* an email has matched the entry that an email of another date created
C32_Witness ==
  \E i, j \in DOMAIN logs :
    /\ SameApplicationTwice(i, j)
    /\ KeyOf(j) \in DOMAIN logs[j].before
    /\ logs[i].email.date # logs[j].email.date
    /\ logs[j].after[KeyOf(j)].email_count = 2
    /\ logs[j].after[KeyOf(j)].first_seen = logs[i].email.date

\* C35: an email whose outcome reports isJobRelated = false, the "error"
\* outcome included, has left the Registry as it found it: no entry created,
\* no email_count and no status_history changed.
C35_NoMutationUnlessJobRelated ==
  \A i \in DOMAIN logs :
    ~logs[i].outcome.isJobRelated => logs[i].after = logs[i].before

\* C38: every entry of the persisted Registry has a status_history that is
\* not empty and whose last element is the entry's current_status.
C38_LastStatusIsCurrent ==
  \A k \in DOMAIN store :
    /\ store[k].status_history # << >>
    /\ store[k].current_status
         = Some(store[k].status_history[Len(store[k].status_history)])

\* a persisted entry with a status appended after its creation, matched by an
\* email whose status determination failed
C38_Witness ==
  \E k \in DOMAIN store : \E i \in DOMAIN logs :
    /\ Len(store[k].status_history) >= 2
    /\ store[k].current_status # Some("applied")
    /\ HasCompany(i) /\ KeyOf(i) = k
    /\ logs[i].status # "ok"
    /\ logs[i].after[k].email_count = 2

(***************************************************************************)
(* Claims about the run over chunks.                                       *)
(***************************************************************************)
\* C11: once an aborted signal has been seen at a chunk boundary of the AI
\* phase, no further chunk is handed to processEmailsChronologically and no
\* further classify, extract or status request is dispatched.
C11_NoDispatchAfterCancel ==
  [][run.observed =>
       /\ Len(run'.chunks) = Len(run.chunks)
       /\ nEmails' = nEmails
       /\ cur'.calls \subseteq cur.calls]_vars

\* a run cancelled after its first chunk, with emails left unprocessed
C11_Witness ==
  /\ run.observed
  /\ runPc = "done"
  /\ Len(run.chunks) >= 1
  /\ Len(logs) >= 1
  /\ runI < Len(runEmails)

\* the outcomes pushed so far, in the order they were computed
ComputedOutcomes == [k \in DOMAIN logs |-> logs[k].outcome]

\* C12: a run cancelled at a chunk boundary ends in the terminal state
\* "Processing cancelled by user.", not in a failure, and the results it
\* reports are exactly the outcomes computed for the chunks before.
C12_CancelledNotFailed ==
  (run.observed /\ runPc = "done")
    => /\ authError = None
       /\ progress.currentStatus = "Processing cancelled by user."
       /\ progress.results = ComputedOutcomes

\* C13: after the worker's error event, the run stops early: no further chunk
\* is started and no classify, extract or status request is dispatched for a
\* later email.
C13_FatalStopsRun ==
  [][run.fatal =>
       /\ Len(run'.chunks) = Len(run.chunks)
       /\ cur'.calls \subseteq cur.calls]_vars

\* the emails of the chunks handed over so far, in order
RECURSIVE ChunkEmails(_)
ChunkEmails(chunks) ==
  IF chunks = << >> THEN << >>
  ELSE ChunkEmails(SubSeq(chunks, 1, Len(chunks) - 1)) \o chunks[Len(chunks)].batch

\* C15: every chunk that failed as a whole has its error in the run-level
\* error list, a failed chunk never makes the run throw (only a cancellation
\* seen at a boundary does), and a run that returned has handed every chunk,
\* those after a failed one included, to the pipeline.
C15_FailedChunkRecordedRunGoesOn ==
  /\ Len(progress.errors)
       = Cardinality({k \in DOMAIN run.chunks : run.chunks[k].ended = "failed"})
  /\ run.ended = "threw" => run.observed
  /\ run.ended = "returned" => ChunkEmails(run.chunks) = runEmails

\* C16: when the run is Completed, the reported results hold exactly one
\* outcome for each email handed to the AI phase.
C16_CompletedListIsFull ==
  run.ended = "returned"
    => \A e \in DOMAIN runEmails :
         Cardinality({k \in DOMAIN progress.results :
                        progress.results[k].emailId = runEmails[e].id}) = 1

\* C18: over a whole run the emails reach the pipeline in ascending date
\* order, across chunk boundaries as within a chunk, and so the first_seen of
\* every Registry entry is the date of the earliest email filed under its key.
C18_AscendingAcrossChunks ==
  /\ \A k \in 1..(Len(logs) - 1) : logs[k].email.date <= logs[k + 1].email.date
  /\ \A k \in DOMAIN logs :
       (HasCompany(k) /\ KeyOf(k) \in DOMAIN knownApplications)
         => knownApplications[KeyOf(k)].first_seen <= logs[k].email.date

\* the chunk being processed
RunningChunk == run.chunks[Len(run.chunks)].batch

\* C27: a cancellation signalled while a chunk is processed does not abort
\* it. The step that aborts the signal touches neither the pipeline nor the
\* channel; with the signal aborted the pipeline of the chunk goes on over the
\* same emails and ends with one outcome per email of the chunk, and the chunk
\* then returns, its outcomes being added to the accumulated and the reported
\* results; only then does the run get to the boundary where the
\* cancellation is honoured.
C27_ChunkCompletesAfterCancel ==
  /\ [][ aborted' # aborted
           => UNCHANGED <<pc, emails, idx, st, results, knownApplications, store,
                          reqs, pendingRequests, worker, isInitialized>> ]_vars
  /\ [][ (aborted /\ runPc = "batch")
           => \/ /\ runPc' = "batch"
                 /\ run'.chunks = run.chunks
                 /\ runResults' = runResults
                 /\ IF pc' = "idle"
                    THEN Len(results') = Len(RunningChunk)
                    ELSE emails' = emails /\ idx' >= idx
              \/ /\ runPc' = "boundary"
                 /\ pc = "idle"
                 /\ Len(runResults') = Len(runResults) + Len(RunningChunk)
                 /\ progress'.results = runResults'
                 /\ ~run'.observed ]_vars

\* the signal was aborted while the chunk ran, and the pipeline of the chunk
\* has pushed the outcome of its last email
C27_Witness ==
  /\ aborted
  /\ runPc = "batch"
  /\ pc = "idle"
  /\ Len(results) = Len(RunningChunk)
  /\ Len(results) > 0

(***************************************************************************)
(* Claims about the retrieval of the emails.                               *)
(***************************************************************************)
\* the ids of the batches that were fetched whole, in order
RECURSIVE FetchedIds(_)
FetchedIds(batches) ==
  IF batches = << >> THEN << >>
  ELSE FetchedIds(SubSeq(batches, 1, Len(batches) - 1))
         \o (IF batches[Len(batches)].ended = "ok"
             THEN batches[Len(batches)].batch ELSE << >>)

\* C26: a retrieval batch in which a fetch fails adds one error to the
\* run-level error list and loses its own emails only: the emails of every
\* other batch are kept, a failure never ends fetchEmailBatch (only a
\* cancellation does), and a call that returned has fetched every batch,
\* those after a failed one included.
C26_FailedBatchRecordedFetchGoesOn ==
  /\ Len(progress.errors)
       = Cardinality({k \in DOMAIN fetch.batches : fetch.batches[k].ended = "failed"})
  /\ [k \in DOMAIN fetch.emails |-> fetch.emails[k].id] = FetchedIds(fetch.batches)
  /\ fetch.ended \in {"threw", "aborted"} => aborted
  /\ fetch.ended = "returned" => ChunkEmails(fetch.batches) = fetch.messageIds

\* a call that returned after its first batch failed and a later one was
\* fetched whole
C26_Witness ==
  /\ fetch.ended = "returned"
  /\ Len(fetch.batches) >= 2
  /\ fetch.batches[1].ended = "failed"
  /\ fetch.batches[2].ended = "ok"
  /\ Len(fetch.emails) = Len(fetch.batches[2].batch)
  /\ Len(progress.errors) = 1

\* C33: between two consecutive batches of fetchEmailBatch the delay has
\* elapsed, whether the earlier batch was fetched or failed: a batch is
\* started only after the delay of the batch before it.
C33_DelayBetweenBatches ==
  \A n \in DOMAIN fetch.batches :
    n < Len(fetch.batches) => fetch.batches[n].delayed

(***************************************************************************)
(* Claims about the statuses of the worker and of the adapter.             *)
(***************************************************************************)
\* C37: every status the worker's processPrompt can emit is accepted by the
\* validStatuses of determineStatus, which returns it as it is; with that,
\* each of the nine enumerated statuses is returned for some answer.
C37_EveryWorkerStatusAccepted ==
  \A c \in DOMAIN statusCalls :
    (~statusCalls[c].threw /\ statusCalls[c].resp[1].ok)
      => statusCalls[c].returned = Some(statusCalls[c].resp[1].result)

(***************************************************************************)
(* Claims about the worker script.                                         *)
(***************************************************************************)
\* the messages posted while request k was handled that carry its id
ResponsesTo(k) ==
  {m \in DOMAIN script.posted :
     script.posted[m].of = k /\ script.posted[m].id = script.received[k].id}

C34_RefusedUnlessInitialized ==
  /\ handler.startedAt \in {"none", "done"}
  /\ handler.handed \subseteq {"done"}

\* C39: every call of the handler ends: whenever isProcessing is set it is
\* later reset with the controller cleared. No second call is in progress
\* while one is, isProcessing and the controller are set exactly while a call
\* is in progress, and with isProcessing reset a click starts a new call.
C39_EveryRunEnds ==
  /\ [](/\ handler.active <= 1
        /\ isProcessing <=> handler.active = 1
        /\ isProcessing <=> abortControllerRef = "live"
        /\ handler.active = 0 <=> handler.pc = "idle")
  /\ isProcessing ~> (~isProcessing /\ abortControllerRef = "null")
  /\ [](~isProcessing /\ handler.runs < MaxRuns
          => ENABLED (\E accessToken \in BOOLEAN : HandleClick(accessToken)))

\* a call was cancelled and ended, and the call started after it has
\* completed
C39_Witness ==
  /\ handler.exit = <<"cancelled", "completed">>
  /\ handler.results > 0
  /\ ~isProcessing
  /\ abortControllerRef = "null"

====
